---- MODULE Spec2Model ----
(***************************************************************************)
(* Model of the scraper agent (ScraperAgent: startScraping,                *)
(* runScrapingJob, scrapeUrl, scrapePage, scrapeWithoutBrowser,            *)
(* extractMainContent) and of the stores it writes.                        *)
(***************************************************************************)
EXTENDS Integers, Sequences, FiniteSets, TLC

\* ------------------------------------------------------------ bounds
\* number of startScraping calls issued
MaxCalls == 1
\* longest URL list handed to startScraping
MaxUrls == 2
\* last value of the millisecond clock read by Date.now()
MaxNow == 1
\* number of values Math.floor(Math.random() * 1000) is drawn from
RandRange == 2

\* number of startScraping calls issued side by side
PairCalls == 2

\* a small length limit an agent is configured with; the texts handed to a
\* summarizer are up to one character longer
MaxText == 2

\* ------------------------------------------------- program constants
maxRetries == 3
retryDelay == 1000
maxContentLength == 12000

\* ------------------------------------------------------------ helpers
Range(s) == {s[i] : i \in DOMAIN s}

\* a backoff that does not grow
Pow2Flat(n) == 1

\* a backoff that grows by the same amount each time
Pow2Linear(n) == 2 * n

RECURSIVE Pow2(_)
Pow2(n) == IF n <= 0 THEN 1 ELSE 2 * Pow2(n - 1)

SeqsUpTo(S, n) == UNION {[1..k -> S] : k \in 0..n}

\* ------------------------------------------------------------ URLs
\* A URL is the token sequence of its host and of its path and query;
\* String.prototype.includes looks at the whole URL text.
WikiUrl == [host |-> <<"en.", "wikipedia.org">>, path |-> <<"/wiki/", "AI">>]
PlainUrl == [host |-> <<"example.com">>, path |-> <<"/">>]

Urls == {WikiUrl, PlainUrl}

UrlText(url) == url.host \o url.path

Includes(url, needle) == needle \in Range(UrlText(url))

\* -------------------------------------------------------- configuration
\* constructor(config = {}): the exported singleton is built with no config
DefaultConfig ==
  [ maxRetries |-> maxRetries,
    retryDelay |-> retryDelay,
    maxContentLength |-> maxContentLength,
    usePuppeteer |-> TRUE,
    enableAIExtraction |-> TRUE,
    searchEnabled |-> TRUE,
    defaultUrls |-> <<>>,
    defaultKeywords |-> <<>> ]

\* ------------------------------------------------------------ text
\* Text is a sequence of one-character strings.
WordChars == {"a", "A", "i", "I", "g", "G", "4"}

IsWordChar(ch) == ch \in WordChars

Lower(ch) ==
  CASE ch = "A" -> "a"
    [] ch = "I" -> "i"
    [] ch = "G" -> "g"
    [] OTHER -> ch

IsSpace(ch) == ch \in {" ", "\n", "\t"}

RECURSIVE TrimStart(_)
TrimStart(t) ==
  IF t # <<>> /\ IsSpace(Head(t)) THEN TrimStart(Tail(t)) ELSE t

RECURSIVE TrimEnd(_)
TrimEnd(t) ==
  IF t # <<>> /\ IsSpace(t[Len(t)]) THEN TrimEnd(SubSeq(t, 1, Len(t) - 1)) ELSE t

\* String.prototype.trim
Trim(t) == TrimEnd(TrimStart(t))

\* replace(/\s+/g, ' ')
RECURSIVE CollapseWs(_)
CollapseWs(t) ==
  IF t = <<>> THEN <<>>
  ELSE IF IsSpace(Head(t))
       THEN <<" ">> \o CollapseWs(TrimStart(t))
       ELSE <<Head(t)>> \o CollapseWs(Tail(t))

\* \b at the gap before position p of t
BoundaryAt(t, p) ==
  LET before == p - 1 >= 1 /\ p - 1 <= Len(t) /\ IsWordChar(t[p - 1])
      after == p >= 1 /\ p <= Len(t) /\ IsWordChar(t[p])
  IN before # after

\* new RegExp(`\\b${keyword}\\b`, "gi") matching at position p
MatchAt(t, kw, p) ==
  /\ p + Len(kw) - 1 <= Len(t)
  /\ \A k \in 1..Len(kw) : Lower(t[p + k - 1]) = Lower(kw[k])
  /\ BoundaryAt(t, p)
  /\ BoundaryAt(t, p + Len(kw))

\* textContent.match(regex) || []).length, the scan of a global regex
RECURSIVE CountFrom(_, _, _)
CountFrom(t, kw, p) ==
  IF p > Len(t) + 1 \/ p + Len(kw) - 1 > Len(t) THEN 0
  ELSE IF MatchAt(t, kw, p)
       THEN 1 + CountFrom(t, kw, p + (IF Len(kw) = 0 THEN 1 ELSE Len(kw)))
       ELSE CountFrom(t, kw, p + 1)

CountMatches(t, kw) == CountFrom(t, kw, 1)

\* keywordMatches: one entry per keyword of the list
KeywordMatches(t, keywords) ==
  [kw \in Range(keywords) |-> CountMatches(t, kw)]

RECURSIVE SumOver(_, _)
SumOver(f, S) ==
  IF S = {} THEN 0
  ELSE LET x == CHOOSE y \in S : TRUE IN f[x] + SumOver(f, S \ {x})

\* a total that counts the keywords, not their matches
CountKeywords(km) == Cardinality(DOMAIN km)

\* Object.values(keywordMatches).reduce((a, b) => a + b, 0)
TotalKeywordMatches(km) == SumOver(km, DOMAIN km)

\* ------------------------------------------------------ environment
\* What a GET can deliver: the markup of a page.  main is the text of the
\* element the extractor selects, as the markup holds it.
Pages == { [title |-> "T", main |-> <<" ", "A", "I", " ", " ", "a", "i", "\n">>] }

\* What a summarizer returns when it answers.
LlmOutputs == { <<"s", "u", "m">> }

NoUrl == [host |-> <<>>, path |-> <<>>]

\* The location a redirected request ends at.
RedirectOf(url) == [host |-> url.host, path |-> url.path \o <<"moved">>]

\* The locations a request for url can resolve to.
ResolvedUrls(url) == {url, RedirectOf(url)}

\* message of the error a failed collaborator call throws
ErrorOf(op) == op \o " failed"

\* message of the error the n-th GET attempt throws
GetError(n) == "get#" \o ToString(n) \o " failed"

\* one collaborator call in the order the code makes them
Event(op, arg, ok) == [op |-> op, arg |-> arg, ok |-> ok]

\* ------------------------------------------------------- PageResult
LightOkFields ==
  {"url", "title", "description", "success", "timestamp", "mainContent",
   "keywordMatches", "totalKeywordMatches", "textLength", "headings",
   "links", "method"}

LightFailFields == {"url", "success", "error", "timestamp", "method"}

PageOkFields ==
  {"url", "title", "description", "success", "timestamp", "mainContent",
   "keywordMatches", "totalKeywordMatches", "textLength", "screenshotUrl"}

PageFailFields == {"url", "success", "error", "timestamp"}

CatchFields == {"url", "success", "error"}

\* fields is the set of keys the object literal has; a key that is not in
\* fields holds the placeholder of its type.
PageResult(url, success, fields, error, method, mainContent, km, textLength) ==
  [ url |-> url,
    success |-> success,
    fields |-> fields,
    error |-> error,
    method |-> method,
    mainContent |-> mainContent,
    keywordMatches |-> km,
    totalKeywordMatches |-> TotalKeywordMatches(km),
    textLength |-> textLength ]

NoMatches == [kw \in {} |-> 0]

NoResult == PageResult(NoUrl, FALSE, {}, "", "", <<>>, NoMatches, 0)

\* what one call of an async function did: it returned value or threw an
\* error with message error, after the collaborator calls of trace;
\* resolved is the location the fetch behind a successful result ended
\* at, NoUrl when the call produced no successful result.
Returned(value, trace, resolved) ==
  [threw |-> FALSE, value |-> value, error |-> "", trace |-> trace,
   resolved |-> resolved]

Threw(error, trace, resolved) ==
  [threw |-> TRUE, value |-> NoResult, error |-> error, trace |-> trace,
   resolved |-> resolved]

\* ------------------------------------------------ extractMainContent
Truncate(fullText, cfg) ==
  IF Len(fullText) > cfg.maxContentLength
  THEN SubSeq(fullText, 1, cfg.maxContentLength) \o <<".", ".", ".">>
  ELSE fullText

\* this.generateText(prompt, ...): answers or throws; sent is the page
\* text put into the prompt
GenerateTextRuns(truncatedText) ==
  { [threw |-> FALSE, text |-> out, error |-> "", sent |-> truncatedText,
     trace |-> <<Event("generateText", Len(truncatedText), TRUE)>>]
    : out \in LlmOutputs }
  \cup
  { [threw |-> TRUE, text |-> <<>>, error |-> ErrorOf("generateText"),
     sent |-> truncatedText,
     trace |-> <<Event("generateText", Len(truncatedText), FALSE)>>] }

\* a chain that asks generateText whatever the OpenAI call did
ExtractMainContentRunsBoth(fullText, keywords, cfg, key) ==
  LET truncatedText == Truncate(fullText, cfg)
  IN { [r EXCEPT !.trace = <<Event("openai", Len(truncatedText), ok)>> \o r.trace]
       : r \in GenerateTextRuns(truncatedText), ok \in BOOLEAN }

\* key: process.env.OPENAI_API_KEY is set
ExtractMainContentRuns(fullText, keywords, cfg, key) ==
  LET truncatedText == Truncate(fullText, cfg)
      fallback == GenerateTextRuns(truncatedText)
      failed == Event("openai", Len(truncatedText), FALSE)
  IN IF key
     THEN { [threw |-> FALSE, text |-> out, error |-> "",
             sent |-> truncatedText,
             trace |-> <<Event("openai", Len(truncatedText), TRUE)>>]
            : out \in LlmOutputs }
          \cup
          { [r EXCEPT !.trace = <<failed>> \o r.trace] : r \in fallback }
     ELSE fallback

\* new RegExp(`\\b${keyword}\\b`, "gi") does not throw a SyntaxError
RegexCompiles(kw) ==
  /\ \A i \in DOMAIN kw : kw[i] \notin {"(", ")", "[", "\\"}
  /\ \A i \in DOMAIN kw :
       kw[i] \in {"+", "*", "?"} => i > 1 /\ kw[i - 1] \notin {"+", "*"}

\* ---------------------------------------------- scrapeWithoutBrowser
\* a fetch that gives up when its first attempt fails
FetchRunsOnce(url, cfg, retries, trace) ==
  { [threw |-> FALSE, has |-> TRUE,
     response |-> [data |-> page, finalUrl |-> final],
     error |-> "", trace |-> Append(trace, Event("get", 1, TRUE))]
    : page \in Pages, final \in ResolvedUrls(url) }
  \cup
  { [threw |-> TRUE, has |-> FALSE,
     response |-> [data |-> CHOOSE q \in Pages : TRUE, finalUrl |-> NoUrl],
     error |-> GetError(1), trace |-> Append(trace, Event("get", 1, FALSE))] }

\* The retry loop around axios.get, entered with retries failed attempts
\* behind it and trace so far: every way the remaining attempts can go.
\* A run is [threw, response, error, trace]; has tells whether response
\* was ever assigned.
RECURSIVE FetchRuns(_, _, _, _)
FetchRuns(url, cfg, retries, trace) ==
  IF retries < cfg.maxRetries
  THEN LET n == retries + 1
           got == Append(trace, Event("get", n, TRUE))
           lost == Append(trace, Event("get", n, FALSE))
       IN { [threw |-> FALSE, has |-> TRUE,
             response |-> [data |-> page, finalUrl |-> final],
             error |-> "", trace |-> got]
            : page \in Pages, final \in ResolvedUrls(url) }
          \cup
          ( IF n >= cfg.maxRetries
            THEN { [threw |-> TRUE, has |-> FALSE,
                    response |-> [data |-> CHOOSE q \in Pages : TRUE,
                                  finalUrl |-> NoUrl],
                    error |-> GetError(n), trace |-> lost] }
            ELSE FetchRuns(url, cfg, n,
                   Append(lost, Event("wait", cfg.retryDelay * Pow2(n), TRUE))) )
  ELSE { [threw |-> FALSE, has |-> FALSE,
          response |-> [data |-> CHOOSE q \in Pages : TRUE, finalUrl |-> NoUrl],
          error |-> "", trace |-> trace] }

LightFailure(url, error) ==
  PageResult(url, FALSE, LightFailFields, error, "lightweight", <<>>, NoMatches, 0)

\* Every way one call of scrapeWithoutBrowser(url, keywords) can go.  The
\* whole body is in one try whose catch returns the failed result, so no
\* run throws.
ScrapeWithoutBrowserRuns(url, keywords, cfg, key) ==
  UNION {
    IF f.threw
    THEN { Returned(LightFailure(url, f.error), f.trace, NoUrl) }
    ELSE IF ~f.has
    THEN { Returned(LightFailure(url, ErrorOf("response.data")), f.trace, NoUrl) }
    ELSE
      LET html == f.response.data
          textContent == CollapseWs(Trim(html.main))
          keywordMatches == KeywordMatches(textContent, keywords)
          done(mainContent) ==
            PageResult(url, TRUE, LightOkFields, "", "lightweight",
                       mainContent, keywordMatches, Len(textContent))
      IN IF \E i \in DOMAIN keywords : ~RegexCompiles(keywords[i])
         THEN { Returned(LightFailure(url, ErrorOf("new RegExp")), f.trace, NoUrl) }
         ELSE IF cfg.enableAIExtraction
         THEN { IF m.threw
                THEN Returned(LightFailure(url, m.error), f.trace \o m.trace, NoUrl)
                ELSE Returned(done(m.text), f.trace \o m.trace,
                              f.response.finalUrl)
                : m \in ExtractMainContentRuns(textContent, keywords, cfg, key) }
         ELSE { Returned(done(textContent), f.trace, f.response.finalUrl) }
    : f \in FetchRuns(url, cfg, 0, <<>>) }

\* ------------------------------------------------------- scrapePage
PageFailure(url, error) ==
  PageResult(url, FALSE, PageFailFields, error, "", <<>>, NoMatches, 0)

\* The try block of scrapePage: the result its return or its catch hands
\* to the finally block, with the calls made.
ScrapePageBodyRuns(url, keywords, cfg, key) ==
  LET ua(ok) == <<Event("page.setUserAgent", 0, ok)>>
      nav(ok) == ua(TRUE) \o <<Event("page.goto", 0, ok)>>
      cap(ok) == nav(TRUE) \o <<Event("page.evaluate", 0, ok)>>
  IN { Returned(PageFailure(url, ErrorOf("page.setUserAgent")), ua(FALSE), NoUrl),
       Returned(PageFailure(url, ErrorOf("page.goto")), nav(FALSE), NoUrl) }
     \cup
     UNION {
       { Returned(PageFailure(url, ErrorOf("page.evaluate")), cap(FALSE), NoUrl) }
       \cup
       UNION {
         LET textContent == page.main
             keywordMatches == KeywordMatches(textContent, keywords)
             sofar == cap(TRUE) \o m.trace
             up(ok) == sofar \o <<Event("storage.uploadFile", 0, ok)>>
         IN IF m.threw
            THEN { Returned(PageFailure(url, m.error), sofar, NoUrl) }
            ELSE IF \E i \in DOMAIN keywords : ~RegexCompiles(keywords[i])
            THEN { Returned(PageFailure(url, ErrorOf("new RegExp")), sofar, NoUrl) }
            ELSE { Returned(PageFailure(url, ErrorOf("storage.uploadFile")),
                            up(FALSE), NoUrl),
                   Returned(PageResult(url, TRUE, PageOkFields, "", "", m.text,
                                       keywordMatches, Len(textContent)),
                            up(TRUE), final) }
         : m \in ExtractMainContentRuns(page.main, keywords, cfg, key) }
       : page \in Pages, final \in ResolvedUrls(url) }

\* a scrapePage that navigates a second time when page.goto fails
ScrapePageRunsRetry(url, keywords, cfg, key) ==
  LET body == ScrapePageBodyRuns(url, keywords, cfg, key)
      navFailed(b) ==
        \E i \in DOMAIN b.trace : b.trace[i].op = "page.goto" /\ ~b.trace[i].ok
      retried ==
        { [b2 EXCEPT !.trace = b1.trace \o b2.trace]
          : b1 \in {b \in body : navFailed(b)}, b2 \in body }
  IN { Threw(ErrorOf("browser.newPage"), <<Event("browser.newPage", 0, FALSE)>>, NoUrl) }
     \cup
     UNION {
       LET opened == <<Event("browser.newPage", 0, TRUE)>> \o b.trace
       IN { [b EXCEPT !.trace = Append(opened, Event("page.close", 0, TRUE))],
            Threw(ErrorOf("page.close"),
                  Append(opened, Event("page.close", 0, FALSE)), NoUrl) }
       : b \in {b \in body : ~navFailed(b)} \cup retried }

\* Every way one call of scrapePage(browser, url, keywords) can go:
\* browser.newPage() is outside the try; page.close() is the finally block.
ScrapePageRuns(url, keywords, cfg, key) ==
  { Threw(ErrorOf("browser.newPage"), <<Event("browser.newPage", 0, FALSE)>>, NoUrl) }
  \cup
  UNION {
    LET opened == <<Event("browser.newPage", 0, TRUE)>> \o b.trace
    IN { [b EXCEPT !.trace = Append(opened, Event("page.close", 0, TRUE))],
         Threw(ErrorOf("page.close"),
               Append(opened, Event("page.close", 0, FALSE)), NoUrl) }
    : b \in ScrapePageBodyRuns(url, keywords, cfg, key) }

\* a strategy that looks at the configuration only
UsesLightweightIfDisabled(url, cfg) == ~cfg.usePuppeteer

\* --------------------------------------------------------- scrapeUrl
\* the strategy scrapeUrl picks for url
UsesLightweight(url, cfg) ==
  \/ ~cfg.usePuppeteer
  \/ Includes(url, "wikipedia.org")
  \/ Includes(url, "britannica.com")

\* Every way one call of scrapeUrl(url, keywords) can go (runScrapingJob
\* passes no browser, so one is launched for the call).
ScrapeUrlRuns(url, keywords, cfg, key) ==
  IF UsesLightweight(url, cfg)
  THEN ScrapeWithoutBrowserRuns(url, keywords, cfg, key)
  ELSE { Threw(ErrorOf("puppeteer.launch"),
               <<Event("puppeteer.launch", 0, FALSE)>>, NoUrl) }
       \cup
       UNION {
         LET launched == <<Event("puppeteer.launch", 0, TRUE)>> \o p.trace
         IN IF p.threw
            THEN { [p EXCEPT !.trace = launched] }
            ELSE { [p EXCEPT !.trace = Append(launched, Event("browser.close", 0, TRUE))],
                   Threw(ErrorOf("browser.close"),
                         Append(launched, Event("browser.close", 0, FALSE)),
                         NoUrl) }
         : p \in ScrapePageRuns(url, keywords, cfg, key) }

\* ------------------------------------------------------ searchForUrls
\* A query is a sequence of words, phrases and the spaces between them.
\* toLowerCase() of a word
LowerWord(w) ==
  CASE w = "Weather" -> "weather"
    [] w = "News" -> "news"
    [] w = "What is" -> "what is"
    [] w = "Who is" -> "who is"
    [] w = "AI" -> "ai"
    [] OTHER -> w

\* the alternatives of /who is|what is|when did|where is/i
QuestionPhrases == {"who is", "what is", "when did", "where is"}

\* encodeURIComponent
EncodeURIComponent(t) == [i \in DOMAIN t |-> IF t[i] = " " THEN "%20" ELSE t[i]]

\* Array.prototype.slice(0, n)
Slice(list, n) ==
  IF n >= 0
  THEN SubSeq(list, 1, IF n < Len(list) THEN n ELSE Len(list))
  ELSE SubSeq(list, 1, IF Len(list) + n > 0 THEN Len(list) + n ELSE 0)

WeatherUrl == [host |-> <<"weather.com">>, path |-> <<"/">>]

NewsUrl == [host |-> <<"news.", "google.com">>, path |-> <<"/">>]

WikiTopicUrl(topic) ==
  [host |-> <<"en.", "wikipedia.org">>,
   path |-> <<"/wiki/">> \o EncodeURIComponent(topic)]

WikiSearchUrl(query) ==
  [host |-> <<"en.", "wikipedia.org">>,
   path |-> <<"/wiki/", "Special:Search?search=">> \o EncodeURIComponent(query)]

BritannicaSearchUrl(query) ==
  [host |-> <<"www.", "britannica.com">>,
   path |-> <<"/search?query=">> \o EncodeURIComponent(query)]

\* query.replace(/who is|what is|when did|where is/i, ''): the first match
\* is removed
RemoveFirstQuestion(query) ==
  LET hits == {i \in DOMAIN query : LowerWord(query[i]) \in QuestionPhrases}
  IN IF hits = {} THEN query
     ELSE LET i == CHOOSE h \in hits : \A k \in hits : h <= k
          IN SubSeq(query, 1, i - 1) \o SubSeq(query, i + 1, Len(query))

\* the URLs the rules of searchForUrls pick for query
PredefinedUrls(query) ==
  LET queryLower == {LowerWord(query[i]) : i \in DOMAIN query}
      topic == Trim(RemoveFirstQuestion(query))
  IN IF "weather" \in queryLower THEN <<WeatherUrl>>
     ELSE IF "news" \in queryLower THEN <<NewsUrl>>
     ELSE IF queryLower \cap QuestionPhrases # {} /\ topic # <<>>
     THEN <<WikiTopicUrl(topic)>>
     ELSE <<>>

FallbackSources(query) == <<WikiSearchUrl(query), BritannicaSearchUrl(query)>>

\* Every way one call of searchForUrls(query, maxResults) can go: the
\* whole body is in a try whose catch returns [].
SearchForUrlsRuns(query, maxResults) ==
  { [threw |-> FALSE, urls |-> <<>>, error |-> "",
     trace |-> <<Event("logActivity", 0, FALSE)>>],
    [threw |-> FALSE,
     urls |-> IF PredefinedUrls(query) # <<>>
              THEN Slice(PredefinedUrls(query), maxResults)
              ELSE Slice(FallbackSources(query), maxResults),
     error |-> "",
     trace |-> <<Event("logActivity", 0, TRUE)>>] }

\* ===================================================== web-scraper.js
\* ------------------------------------------------------- searchForUrl
WebScrapingUrl ==
  [host |-> <<"en.", "wikipedia.org">>, path |-> <<"/wiki/", "Web_scraping">>]

\* the alternatives of /what is|wikipedia|tell me about|who is/gi
TopicNoise == {"what is", "wikipedia", "tell me about", "who is"}

\* query.replace(/what is|wikipedia|tell me about|who is/gi, ''): every
\* match is removed
RemoveTopicNoise(query) == SelectSeq(query, LAMBDA w : LowerWord(w) \notin TopicNoise)

\* searchForUrl(query)
SearchForUrl(query) ==
  LET queryLower == {LowerWord(query[i]) : i \in DOMAIN query}
  IN IF "weather" \in queryLower THEN WeatherUrl
     ELSE IF "news" \in queryLower THEN NewsUrl
     ELSE IF "wikipedia" \in queryLower \/ "what is" \in queryLower
     THEN WikiTopicUrl(Trim(RemoveTopicNoise(query)))
     ELSE WebScrapingUrl

\* ---------------------------------------------------------- scrapeUrl
\* options is [maxRetries, maxLength]; 0 stands for an option not given
\* options.maxRetries || 3
WsMaxRetries(options) == IF options.maxRetries = 0 THEN 3 ELSE options.maxRetries

\* message of the error scrapeUrl throws after the last attempt
WsGiveUpError(limit, n) ==
  "Failed to scrape URL after " \o ToString(limit) \o " attempts: " \o GetError(n)

\* The retry loop of scrapeUrl(url, options), entered with retries failed
\* attempts behind it: every way the remaining attempts can go.  A
\* response whose status is not 200 throws inside the try and counts as a
\* failed attempt.
RECURSIVE WsScrapeUrlRuns(_, _, _, _)
WsScrapeUrlRuns(url, limit, retries, trace) ==
  IF retries < limit
  THEN LET n == retries + 1
           got == Append(trace, Event("get", n, TRUE))
           lost == Append(trace, Event("get", n, FALSE))
       IN { [threw |-> FALSE, has |-> TRUE, html |-> page, url |-> final,
             error |-> "", trace |-> got]
            : page \in Pages, final \in ResolvedUrls(url) }
          \cup
          ( IF n >= limit
            THEN { [threw |-> TRUE, has |-> FALSE,
                    html |-> CHOOSE q \in Pages : TRUE, url |-> NoUrl,
                    error |-> WsGiveUpError(limit, n), trace |-> lost] }
            ELSE WsScrapeUrlRuns(url, limit, n,
                   Append(lost, Event("wait", 1000 * Pow2(n), TRUE))) )
  ELSE { [threw |-> FALSE, has |-> FALSE,
          html |-> CHOOSE q \in Pages : TRUE, url |-> NoUrl,
          error |-> "", trace |-> trace] }

\* ----------------------------------------------------- extractContent
\* replace(/\\s+/g, ' '): the pattern is a backslash followed by one or
\* more letters s
RECURSIVE SkipS(_)
SkipS(t) == IF t # <<>> /\ Head(t) = "s" THEN SkipS(Tail(t)) ELSE t

RECURSIVE ReplaceBackslashS(_)
ReplaceBackslashS(t) ==
  IF t = <<>> THEN <<>>
  ELSE IF Head(t) = "\\" /\ Len(t) >= 2 /\ t[2] = "s"
       THEN <<" ">> \o ReplaceBackslashS(SkipS(Tail(t)))
       ELSE <<Head(t)>> \o ReplaceBackslashS(Tail(t))

\* extractContent(html, url): the title and the text of the main element
ExtractContent(html) ==
  [title |-> html.title, text |-> ReplaceBackslashS(Trim(html.main))]

\* ------------------------------------------------------ processWithAI
\* options.maxLength || 9000
WsMaxLength(options) == IF options.maxLength = 0 THEN 9000 ELSE options.maxLength

\* String.prototype.substring(0, n)
Substring(t, n) ==
  SubSeq(t, 1, IF n < 0 THEN 0 ELSE IF n < Len(t) THEN n ELSE Len(t))

\* Every way one call of processWithAI(extractedData, url, options) can
\* go; sent is the page text put into the prompt.  The catch returns the
\* fallback, so no run throws.
ProcessWithAIRuns(extractedData, options) ==
  LET text == Substring(extractedData.text, WsMaxLength(options))
      call(ok) == Event("openai", Len(text), ok)
      fallback(error, trace) ==
        [threw |-> FALSE, sent |-> text, summary |-> <<"F", "a", "i", "l">>,
         hasKeyPoints |-> FALSE, error |-> error, trace |-> trace]
  IN { [threw |-> FALSE, sent |-> text, summary |-> out, hasKeyPoints |-> TRUE,
        error |-> "", trace |-> <<call(TRUE), Event("JSON.parse", 0, TRUE)>>]
       : out \in LlmOutputs }
     \cup
     { fallback(ErrorOf("openai"), <<call(FALSE)>>),
       fallback(ErrorOf("JSON.parse"),
                <<call(TRUE), Event("JSON.parse", 0, FALSE)>>) }

\* --------------------------------------------------------- webScraper
NoWsValue == [success |-> FALSE, error |-> "", url |-> NoUrl, summary |-> <<>>]

\* the catch block of webScraper: the error is stored, then returned
WsCatch(error, trace, stored) ==
  { [threw |-> FALSE,
     value |-> [success |-> FALSE, error |-> error, url |-> NoUrl, summary |-> <<>>],
     error |-> "",
     trace |-> Append(trace, Event("set scrape_errors", 0, TRUE)),
     stored |-> stored \cup {"scrape_errors"}],
    [threw |-> TRUE, value |-> NoWsValue, error |-> ErrorOf("set scrape_errors"),
     trace |-> Append(trace, Event("set scrape_errors", 0, FALSE)),
     stored |-> stored] }

\* Every way one call of webScraper({url, query, options}) can go; stored
\* is the set of collections it wrote a document to.
WebScraperRuns(url, query, options) ==
  IF url = NoUrl /\ query = <<>>
  THEN WsCatch("Either url or query must be provided", <<>>, {})
  ELSE
    LET targetUrl == IF url # NoUrl THEN url ELSE SearchForUrl(query)
    IN UNION {
         IF f.threw THEN WsCatch(f.error, f.trace, {})
         ELSE IF ~f.has THEN WsCatch(ErrorOf("scrapedContent.html"), f.trace, {})
         ELSE
           WsCatch(ErrorOf("load"), Append(f.trace, Event("load", 0, FALSE)), {})
           \cup
           UNION {
             LET sofar == Append(f.trace, Event("load", 0, TRUE)) \o a.trace
                 done(ok) ==
                   [threw |-> FALSE,
                    value |-> [success |-> TRUE, error |-> "", url |-> targetUrl,
                               summary |-> a.summary],
                    error |-> "",
                    trace |-> sofar \o <<Event("set scrapes", 0, TRUE),
                                         Event("add agent_tasks", 0, ok)>>,
                    stored |-> IF ok THEN {"scrapes", "agent_tasks"}
                               ELSE {"scrapes"}]
             IN { done(TRUE), done(FALSE) }
                \cup
                WsCatch(ErrorOf("set scrapes"),
                        Append(sofar, Event("set scrapes", 0, FALSE)), {})
             : a \in ProcessWithAIRuns(ExtractContent(f.html), options) }
         : f \in WsScrapeUrlRuns(targetUrl, WsMaxRetries(options), 0, <<>>) }

\* ================================================== assistants-util.js
\* searchWeb({url, query, keywords}): the mock result, or the failure the
\* catch block returns; it calls no collaborator
SearchWeb(url, query) ==
  IF url = NoUrl /\ query = <<>>
  THEN [success |-> FALSE, error |-> "Either url or query must be provided"]
  ELSE [success |-> TRUE, error |-> ""]

\* ================================================== the job controller
VARIABLES
  now,          \* Date.now()
  openaiKey,    \* process.env.OPENAI_API_KEY is set
  callPc,       \* where each startScraping call stands
  jobIdOf,      \* the jobId each call generated
  pending,      \* the document each call hands to set()
  runPc,        \* where each runScrapingJob call stands
  jobData,      \* jobDoc.data() as each run read it
  scrapedData,  \* the results array of each run
  runError,     \* the error the catch block of each run caught
  scrapingJobs, \* collection "scrapingJobs", by document id
  scrapedDocs,  \* collection "scrapedData", by the job id of the document id
  rawFiles,     \* storage files scraping/scrape_result_<jobId>.json
  writes,       \* history: the statuses each call and its run wrote, in order
  faults,       \* history: the collaborator calls that failed in each run
  resolved,     \* history: the location the fetch behind each result ended at
  probe,        \* the last call of a function made on its own, and how it went
  request,      \* the data each call of the callable function received
  poll,         \* the call of pollRunStatus: its loop variables
  phoneToThreadMap, \* assistants-util.js: the thread id stored for each number
  threads,      \* the threads created, by thread id: the number each is for
  ensured,      \* history: the thread ids ensureThreadForPhoneNumber returned
  sessions,     \* twilio-voice-solution.js: the sessions map, by session id
  voicePc,      \* where each /voice handler stands
  answers,      \* history: what each /respond and /reprompt answered
  potentialTasks, \* collection "potential_tasks"
  reminders,    \* collection "reminders"
  services      \* which of db and openaiClient the server has set up

\* the state of the voice server and of its assistant
voiceVars ==
  <<poll, phoneToThreadMap, threads, ensured, sessions, voicePc, answers,
    potentialTasks, reminders, services>>

vars ==
  <<now, openaiKey, callPc, jobIdOf, pending, runPc, jobData, scrapedData,
    runError, scrapingJobs, scrapedDocs, rawFiles, writes, faults, resolved,
    probe, request, voiceVars>>

Calls == 1..MaxCalls

\* `scrape_${Date.now()}_${Math.floor(Math.random() * 1000)}`
JobId(ms, rnd) == <<ms, rnd>>

Ids == {JobId(ms, rnd) : ms \in 0..MaxNow, rnd \in 0..(RandRange - 1)}

NoId == JobId(0 - 1, 0 - 1)

KeywordLists == { <<>>, << <<"a", "i">> >> }

UrlLists == SeqsUpTo(Urls, MaxUrls)

\* the collaborator calls a run made that failed
FailedOps(r) == {r.trace[i].op : i \in {j \in DOMAIN r.trace : ~r.trace[j].ok}}

\* The collaborator calls of the per-URL step.
UrlOps ==
  {"get", "openai", "generateText", "puppeteer.launch", "browser.newPage",
   "page.setUserAgent", "page.goto", "page.evaluate", "storage.uploadFile",
   "page.close", "browser.close"}

\* An environment says which URL lists and keyword lists callers pass,
\* which calls of the per-URL step can fail and whether a request can be
\* redirected.
FullEnv ==
  [urlLists |-> UrlLists, keywordLists |-> KeywordLists, faults |-> UrlOps,
   redirects |-> TRUE]

\* LeanEnv: a failing GET and a failing launch stand for the failures of
\* the per-URL step; every call of the job itself can still fail.
LeanEnv ==
  [urlLists |-> UrlLists,
   keywordLists |-> {<<>>},
   faults |-> {"get", "puppeteer.launch"},
   redirects |-> FALSE]

NoJob ==
  [exists |-> FALSE, urls |-> <<>>, keywords |-> <<>>, status |-> "none",
   error |-> "", counts |-> <<>>]

NoData == [exists |-> FALSE, results |-> <<>>]

NoJobData == [urls |-> <<>>, keywords |-> <<>>]

\* no function has been called on its own
NoProbe == [fn |-> "none"]

\* the callable function has received no data for the call
NoRequest ==
  [url |-> NoUrl, query |-> <<>>, keywords |-> <<>>, maxSearchResults |-> 0]

\* --------------------------------------------- the voice server
\* const maxIterations = 60
maxIterations == 60

\* const terminalStates = [...]
terminalStates == {"completed", "failed", "cancelled", "requires_action", "expired"}

\* the statuses runs.retrieve can report
RunStatuses == terminalStates \cup {"queued", "in_progress", "cancelling"}

\* pollRunStatus is not running: let runStatus is undefined, iterations 0
NoPoll ==
  [pc |-> "idle", iterations |-> 0, runStatus |-> "undefined", retrievals |-> 0]

\* the caller numbers and the call ids Twilio sends; "" stands for a
\* field the request does not carry
Phones == {"+1", "+2"}

CallSids == {"CA1", "CA2"}

\* number of /voice requests handled
MaxVoice == 2

Voices == 1..MaxVoice

\* number of /respond, /reprompt and /status requests handled
MaxRequests == 2

SessionIds == 0..MaxNow

NoSession == [exists |-> FALSE, callSid |-> "", threadId |-> 0, messages |-> <<>>]

NoVoice == [pc |-> "idle", sessionId |-> 0, from |-> "", created |-> 0]

\* the voice server once its module is loaded
InitVoice ==
  /\ poll = NoPoll
  /\ phoneToThreadMap = [p \in Phones |-> 0]
  /\ threads = <<>>
  /\ ensured = <<>>
  /\ sessions = [id \in SessionIds |-> NoSession]
  /\ voicePc = [v \in Voices |-> NoVoice]
  /\ answers = <<>>
  /\ potentialTasks = <<>>
  /\ reminders = <<>>
  /\ services = [db |-> FALSE, openaiClient |-> FALSE]

\* the state once the module is loaded, before any of the calls cs
InitWith(cs) ==
  /\ now = 0
  /\ openaiKey \in BOOLEAN
  /\ callPc = [c \in cs |-> "idle"]
  /\ jobIdOf = [c \in cs |-> NoId]
  /\ pending = [c \in cs |-> NoJob]
  /\ runPc = [c \in cs |-> "none"]
  /\ jobData = [c \in cs |-> NoJobData]
  /\ scrapedData = [c \in cs |-> <<>>]
  /\ runError = [c \in cs |-> ""]
  /\ scrapingJobs = [id \in Ids |-> NoJob]
  /\ scrapedDocs = [id \in Ids |-> NoData]
  /\ rawFiles = [id \in Ids |-> NoData]
  /\ writes = [c \in cs |-> <<>>]
  /\ faults = [c \in cs |-> {}]
  /\ resolved = [c \in cs |-> <<>>]
  /\ probe = NoProbe
  /\ request = [c \in cs |-> NoRequest]
  /\ InitVoice

Init == InitWith(Calls)

\* the millisecond clock advances
Tick ==
  /\ now < MaxNow
  /\ now' = now + 1
  /\ UNCHANGED <<writes, openaiKey, callPc, jobIdOf, pending, runPc, jobData,
                 scrapedData, runError, scrapingJobs, scrapedDocs, rawFiles,
                 faults, resolved>>
  /\ UNCHANGED <<probe, request, voiceVars>>

\* ------------------------------------------------------ startScraping
\* startScraping(urls, keywords) up to its first await: the id is made
\* and set() is called.  given says whether the argument is an array
\* (urls || this.defaultUrls).
StartScrapingIn(c, env) ==
  /\ callPc[c] = "idle"
  /\ IF c = 1 THEN TRUE ELSE callPc[c - 1] # "idle"
  /\ \E rnd \in 0..(RandRange - 1), given \in BOOLEAN,
        urls \in env.urlLists, keywords \in env.keywordLists :
       /\ given \/ (urls = <<>> /\ keywords = <<>>)
       /\ jobIdOf' = [jobIdOf EXCEPT ![c] = JobId(now, rnd)]
       /\ pending' = [pending EXCEPT ![c] =
            [exists |-> TRUE,
             urls |-> IF given THEN urls ELSE DefaultConfig.defaultUrls,
             keywords |-> IF given THEN keywords ELSE DefaultConfig.defaultKeywords,
             status |-> "queued", error |-> "", counts |-> <<>>]]
  /\ callPc' = [callPc EXCEPT ![c] = "set"]
  /\ UNCHANGED <<writes, now, openaiKey, runPc, jobData, scrapedData, runError,
                 scrapingJobs, scrapedDocs, rawFiles, faults, resolved>>
  /\ UNCHANGED <<probe, request, voiceVars>>

\* a startScraping that starts the run whether or not set() resolved
DbSetQueuedEager(c) ==
  /\ callPc[c] = "set"
  /\ runPc' = [runPc EXCEPT ![c] = "update_running"]
  /\ \/ /\ scrapingJobs' = [scrapingJobs EXCEPT ![jobIdOf[c]] = pending[c]]
        /\ writes' = [writes EXCEPT ![c] = Append(@, "queued")]
        /\ callPc' = [callPc EXCEPT ![c] = "log"]
     \/ /\ callPc' = [callPc EXCEPT ![c] = "threw"]
        /\ UNCHANGED <<scrapingJobs, writes>>
  /\ UNCHANGED <<now, openaiKey, jobIdOf, pending, jobData, scrapedData,
                 runError, scrapedDocs, rawFiles, faults, resolved>>
  /\ UNCHANGED <<probe, request, voiceVars>>

\* await db.collection("scrapingJobs").doc(jobId).set({...}) settles.
\* When it resolves, runScrapingJob(jobId) is called and runs up to its
\* first await, and startScraping goes on to logActivity; when it rejects,
\* the catch block throws "Failed to start scraping job".
DbSetQueued(c) ==
  /\ callPc[c] = "set"
  /\ \/ /\ scrapingJobs' = [scrapingJobs EXCEPT ![jobIdOf[c]] = pending[c]]
        /\ writes' = [writes EXCEPT ![c] = Append(@, "queued")]
        /\ runPc' = [runPc EXCEPT ![c] = "update_running"]
        /\ callPc' = [callPc EXCEPT ![c] = "log"]
     \/ /\ callPc' = [callPc EXCEPT ![c] = "threw"]
        /\ UNCHANGED <<scrapingJobs, runPc, writes>>
  /\ UNCHANGED <<now, openaiKey, jobIdOf, pending, jobData, scrapedData,
                 runError, scrapedDocs, rawFiles, faults, resolved>>
  /\ UNCHANGED <<probe, request, voiceVars>>

\* await this.logActivity("Scraping job created", ...) settles:
\* return jobId, or the catch block throws.
LogCreated(c) ==
  /\ callPc[c] = "log"
  /\ \E ok \in BOOLEAN :
       callPc' = [callPc EXCEPT ![c] = IF ok THEN "returned" ELSE "threw"]
  /\ UNCHANGED <<writes, now, openaiKey, jobIdOf, pending, runPc, jobData,
                 scrapedData, runError, scrapingJobs, scrapedDocs, rawFiles,
                 faults, resolved>>
  /\ UNCHANGED <<probe, request, voiceVars>>

\* ----------------------------------------------------- runScrapingJob
\* The try block throws while the run awaits op: control reaches the catch
\* block, which calls update({status: "failed", error: error.message}).
Catch(c, failed, message) ==
  /\ runError' = [runError EXCEPT ![c] = message]
  /\ faults' = [faults EXCEPT ![c] = @ \cup failed]
  /\ runPc' = [runPc EXCEPT ![c] = "update_failed"]

\* the pc of a run that has the results so far: the next URL of the
\* for-of loop, or browser.close() after the last one
AfterUrl(urls, results) ==
  IF Len(results) < Len(urls) THEN "scrape" ELSE "close"

\* await doc(jobId).update({status: "running", ...}) settles
UpdateRunning(c) ==
  /\ runPc[c] = "update_running"
  /\ \/ /\ scrapingJobs' = [scrapingJobs EXCEPT ![jobIdOf[c]].status = "running"]
        /\ writes' = [writes EXCEPT ![c] = Append(@, "running")]
        /\ runPc' = [runPc EXCEPT ![c] = "get"]
        /\ UNCHANGED <<runError, faults>>
     \/ /\ Catch(c, {"update running"}, ErrorOf("update running"))
        /\ UNCHANGED <<scrapingJobs, writes>>
  /\ UNCHANGED <<now, openaiKey, callPc, jobIdOf, pending, jobData,
                 scrapedData, scrapedDocs, rawFiles, resolved>>
  /\ UNCHANGED <<probe, request, voiceVars>>

\* await doc(jobId).get() settles; jobData = jobDoc.data()
GetJob(c) ==
  /\ runPc[c] = "get"
  /\ \/ LET doc == scrapingJobs[jobIdOf[c]]
        IN /\ jobData' = [jobData EXCEPT ![c] =
                            [urls |-> doc.urls, keywords |-> doc.keywords]]
           /\ runPc' = [runPc EXCEPT ![c] = AfterUrl(doc.urls, <<>>)]
           /\ UNCHANGED <<runError, faults>>
     \/ /\ Catch(c, {"get"}, ErrorOf("get"))
        /\ UNCHANGED jobData
  /\ UNCHANGED <<writes, now, openaiKey, callPc, jobIdOf, pending, scrapedData,
                 scrapingJobs, scrapedDocs, rawFiles, resolved>>
  /\ UNCHANGED <<probe, request, voiceVars>>

\* the ways scrapeUrl(url, keywords) can go on the singleton in env
EnvRuns(url, keywords, env) ==
  { r \in ScrapeUrlRuns(url, keywords, DefaultConfig, openaiKey) :
      /\ FailedOps(r) \subseteq env.faults
      /\ env.redirects \/ r.resolved \in {NoUrl, url} }

\* an inner catch block that pushes a result without the error
CatchResultBare(url, message) ==
  PageResult(url, FALSE, {"url", "success"}, "", "", <<>>, NoMatches, 0)

\* the result the inner catch block pushes when scrapeUrl throws
CatchResult(url, message) ==
  PageResult(url, FALSE, CatchFields, message, "", <<>>, NoMatches, 0)

\* a loop body that records the location the fetch ended at as the url
PushedResolved(url, r) ==
  IF r.threw THEN CatchResult(url, r.error) ELSE [r.value EXCEPT !.url = r.resolved]

\* the entry one pass of the loop body pushes for url when scrapeUrl went
\* as run r
Pushed(url, r) == IF r.threw THEN CatchResult(url, r.error) ELSE r.value

\* a loop whose inner catch rethrows: a throwing scrapeUrl ends the loop
AfterPushAbort(urls, results, r) ==
  IF r.threw THEN "update_failed" ELSE AfterUrl(urls, results)

\* the pc of the run once the loop body has pushed the entry of run r
AfterPush(urls, results, r) == AfterUrl(urls, results)

\* One pass of the for-of loop: await this.scrapeUrl(url, keywords)
\* settles and its result, or the failed result of the inner catch, is
\* pushed.
ScrapeNextIn(c, env) ==
  /\ runPc[c] = "scrape"
  /\ LET url == jobData[c].urls[Len(scrapedData[c]) + 1]
     IN \E r \in EnvRuns(url, jobData[c].keywords, env) :
          LET results == Append(scrapedData[c], Pushed(url, r))
          IN /\ scrapedData' = [scrapedData EXCEPT ![c] = results]
             /\ resolved' = [resolved EXCEPT ![c] = Append(@, r.resolved)]
             /\ runPc' = [runPc EXCEPT ![c] = AfterPush(jobData[c].urls, results, r)]
  /\ UNCHANGED <<writes, now, openaiKey, callPc, jobIdOf, pending, jobData, runError,
                 scrapingJobs, scrapedDocs, rawFiles, faults>>
  /\ UNCHANGED <<probe, request, voiceVars>>

\* What evaluating the free identifier browser of line 188 can do: no
\* declaration of it is in scope, so it is looked up on the global object.
BrowserLookups == {"bound", "ReferenceError"}

\* await browser.close()
CloseBrowser(c) ==
  /\ runPc[c] = "close"
  /\ \E lookup \in BrowserLookups :
       IF lookup = "bound"
       THEN /\ runPc' = [runPc EXCEPT ![c] = "save"]
            /\ UNCHANGED <<runError, faults>>
       ELSE Catch(c, {}, "browser is not defined")
  /\ UNCHANGED <<writes, now, openaiKey, callPc, jobIdOf, pending, jobData,
                 scrapedData, scrapingJobs, scrapedDocs, rawFiles, resolved>>
  /\ UNCHANGED <<probe, request, voiceVars>>

\* await db.collection("scrapedData").doc(scrapedDataId).set({...}) settles
SaveScrapedData(c) ==
  /\ runPc[c] = "save"
  /\ \/ /\ scrapedDocs' = [scrapedDocs EXCEPT ![jobIdOf[c]] =
                             [exists |-> TRUE, results |-> scrapedData[c]]]
        /\ runPc' = [runPc EXCEPT ![c] = "upload"]
        /\ UNCHANGED <<runError, faults>>
     \/ /\ Catch(c, {"set scrapedData"}, ErrorOf("set scrapedData"))
        /\ UNCHANGED scrapedDocs
  /\ UNCHANGED <<writes, now, openaiKey, callPc, jobIdOf, pending, jobData,
                 scrapedData, scrapingJobs, rawFiles, resolved>>
  /\ UNCHANGED <<probe, request, voiceVars>>

\* await storage.uploadFile(JSON.stringify(scrapedData), rawDataPath) settles
UploadRaw(c) ==
  /\ runPc[c] = "upload"
  /\ \/ /\ rawFiles' = [rawFiles EXCEPT ![jobIdOf[c]] =
                          [exists |-> TRUE, results |-> scrapedData[c]]]
        /\ runPc' = [runPc EXCEPT ![c] = "update_completed"]
        /\ UNCHANGED <<runError, faults>>
     \/ /\ Catch(c, {"uploadFile"}, ErrorOf("uploadFile"))
        /\ UNCHANGED rawFiles
  /\ UNCHANGED <<writes, now, openaiKey, callPc, jobIdOf, pending, jobData,
                 scrapedData, scrapingJobs, scrapedDocs, resolved>>
  /\ UNCHANGED <<probe, request, voiceVars>>

\* a count that takes every result for a success
SuccessCountAll(results) == Len(results)

\* scrapedData.filter((d) => d.success).length
SuccessCount(results) == Cardinality({i \in DOMAIN results : results[i].success})

\* await doc(jobId).update({status: "completed", resultCount, successCount})
\* settles
UpdateCompleted(c) ==
  /\ runPc[c] = "update_completed"
  /\ \/ /\ scrapingJobs' = [scrapingJobs EXCEPT ![jobIdOf[c]] =
             [@ EXCEPT !.status = "completed",
                       !.counts = <<Len(scrapedData[c]), SuccessCount(scrapedData[c])>>]]
        /\ writes' = [writes EXCEPT ![c] = Append(@, "completed")]
        /\ runPc' = [runPc EXCEPT ![c] = "log_completed"]
        /\ UNCHANGED <<runError, faults>>
     \/ /\ Catch(c, {"update completed"}, ErrorOf("update completed"))
        /\ UNCHANGED <<scrapingJobs, writes>>
  /\ UNCHANGED <<now, openaiKey, callPc, jobIdOf, pending, jobData,
                 scrapedData, scrapedDocs, rawFiles, resolved>>
  /\ UNCHANGED <<probe, request, voiceVars>>

\* await this.logActivity("Scraping job completed", ...) settles; it is
\* the last statement of the try block
LogCompleted(c) ==
  /\ runPc[c] = "log_completed"
  /\ \/ /\ runPc' = [runPc EXCEPT ![c] = "done"]
        /\ UNCHANGED <<runError, faults>>
     \/ Catch(c, {"logActivity"}, ErrorOf("logActivity"))
  /\ UNCHANGED <<writes, now, openaiKey, callPc, jobIdOf, pending, jobData,
                 scrapedData, scrapingJobs, scrapedDocs, rawFiles, resolved>>
  /\ UNCHANGED <<probe, request, voiceVars>>

\* catch block: await doc(jobId).update({status: "failed", error}) settles;
\* when it rejects, the promise of runScrapingJob rejects
UpdateFailed(c) ==
  /\ runPc[c] = "update_failed"
  /\ \/ /\ scrapingJobs' = [scrapingJobs EXCEPT ![jobIdOf[c]] =
             [@ EXCEPT !.status = "failed", !.error = runError[c]]]
        /\ writes' = [writes EXCEPT ![c] = Append(@, "failed")]
        /\ runPc' = [runPc EXCEPT ![c] = "log_failed"]
        /\ UNCHANGED faults
     \/ /\ runPc' = [runPc EXCEPT ![c] = "rejected"]
        /\ faults' = [faults EXCEPT ![c] = @ \cup {"update failed"}]
        /\ UNCHANGED <<scrapingJobs, writes>>
  /\ UNCHANGED <<now, openaiKey, callPc, jobIdOf, pending, jobData,
                 scrapedData, runError, scrapedDocs, rawFiles, resolved>>
  /\ UNCHANGED <<probe, request, voiceVars>>

\* catch block: await this.logActivity("Scraping job failed", ...) settles
LogFailed(c) ==
  /\ runPc[c] = "log_failed"
  /\ \/ /\ runPc' = [runPc EXCEPT ![c] = "done"]
        /\ UNCHANGED faults
     \/ /\ runPc' = [runPc EXCEPT ![c] = "rejected"]
        /\ faults' = [faults EXCEPT ![c] = @ \cup {"logActivity failed"}]
  /\ UNCHANGED <<writes, now, openaiKey, callPc, jobIdOf, pending, jobData,
                 scrapedData, runError, scrapingJobs, scrapedDocs, rawFiles,
                 resolved>>
  /\ UNCHANGED <<probe, request, voiceVars>>

\* ------------------------------------------- createCallableFunction
\* startScraping(urls, keywords) called with arrays, up to its first
\* await
StartScrapingWith(c, urls, keywords) ==
  /\ \E rnd \in 0..(RandRange - 1) :
       jobIdOf' = [jobIdOf EXCEPT ![c] = JobId(now, rnd)]
  /\ pending' = [pending EXCEPT ![c] =
       [exists |-> TRUE, urls |-> urls, keywords |-> keywords,
        status |-> "queued", error |-> "", counts |-> <<>>]]
  /\ callPc' = [callPc EXCEPT ![c] = "set"]

\* options.maxSearchResults || 3
MaxResults(maxSearchResults) == IF maxSearchResults = 0 THEN 3 ELSE maxSearchResults

\* a callable function that starts a job without looking at its data
OnCallUnchecked(c, env) ==
  /\ callPc[c] = "idle"
  /\ \E url \in env.urls \cup {NoUrl}, query \in env.queries,
        keywords \in env.keywordLists, m \in env.maxSearchResults :
       /\ request' = [request EXCEPT ![c] =
            [url |-> url, query |-> query, keywords |-> keywords,
             maxSearchResults |-> m]]
       /\ StartScrapingWith(c, IF url = NoUrl THEN <<>> ELSE <<url>>, keywords)
  /\ UNCHANGED <<writes, now, openaiKey, runPc, jobData, scrapedData, runError,
                 scrapingJobs, scrapedDocs, rawFiles, faults, resolved, probe,
                 voiceVars>>

\* The callable function receives data = {url, query, keywords, options}
\* and runs up to its first await.  NoUrl stands for a missing or empty
\* url and <<>> for a missing or empty query.
OnCallIn(c, env) ==
  /\ callPc[c] = "idle"
  /\ IF c = 1 THEN TRUE ELSE callPc[c - 1] # "idle"
  /\ \E url \in env.urls \cup {NoUrl}, query \in env.queries,
        keywords \in env.keywordLists, m \in env.maxSearchResults :
       /\ request' = [request EXCEPT ![c] =
            [url |-> url, query |-> query, keywords |-> keywords,
             maxSearchResults |-> m]]
       /\ IF url = NoUrl /\ query = <<>>
          THEN /\ callPc' = [callPc EXCEPT ![c] = "invalid"]
               /\ UNCHANGED <<jobIdOf, pending>>
          ELSE IF url = NoUrl /\ DefaultConfig.searchEnabled
          THEN /\ callPc' = [callPc EXCEPT ![c] = "search"]
               /\ UNCHANGED <<jobIdOf, pending>>
          ELSE StartScrapingWith(c, IF url = NoUrl THEN <<>> ELSE <<url>>, keywords)
  /\ UNCHANGED <<writes, now, openaiKey, runPc, jobData, scrapedData, runError,
                 scrapingJobs, scrapedDocs, rawFiles, faults, resolved, probe,
                 voiceVars>>

\* await this.searchForUrls(query, options.maxSearchResults || 3) settles
\* and the callable function calls startScraping(urlsToScrape, keywords)
SearchSettles(c) ==
  /\ callPc[c] = "search"
  /\ \E r \in SearchForUrlsRuns(request[c].query,
                                MaxResults(request[c].maxSearchResults)) :
       StartScrapingWith(c, r.urls, request[c].keywords)
  /\ UNCHANGED <<writes, now, openaiKey, runPc, jobData, scrapedData, runError,
                 scrapingJobs, scrapedDocs, rawFiles, faults, resolved, probe,
                 request, voiceVars>>

\* ------------------------------------------- webScraper and searchWeb
\* One request to the webScraper callable of web-scraper.js, handled to
\* its end.
WebScraperCallIn(env) ==
  /\ probe = NoProbe
  /\ \E url \in env.urls \cup {NoUrl}, query \in env.queries,
        options \in env.options :
       \E r \in WebScraperRuns(url, query, options) :
         /\ FailedOps(r) \subseteq env.wsFaults
         /\ probe' = [fn |-> "webScraper",
                      args |-> [url |-> url, query |-> query, options |-> options],
                      run |-> r]
  /\ UNCHANGED <<now, openaiKey, callPc, jobIdOf, pending, runPc, jobData,
                 scrapedData, runError, scrapingJobs, scrapedDocs, rawFiles,
                 writes, faults, resolved, request, voiceVars>>

\* One call of the searchWeb tool of assistants-util.js.
SearchWebCallIn(env) ==
  /\ probe = NoProbe
  /\ \E url \in env.urls \cup {NoUrl}, query \in env.queries :
       probe' = [fn |-> "searchWeb",
                 args |-> [url |-> url, query |-> query],
                 run |-> [threw |-> FALSE, value |-> SearchWeb(url, query),
                          trace |-> <<>>]]
  /\ UNCHANGED <<now, openaiKey, callPc, jobIdOf, pending, runPc, jobData,
                 scrapedData, runError, scrapingJobs, scrapedDocs, rawFiles,
                 writes, faults, resolved, request, voiceVars>>

\* ------------------------------------------ functions called alone
\* One call of scrapeUrl(url, keywords) on an agent constructed with cfg.
CallScrapeUrlIn(env) ==
  /\ probe = NoProbe
  /\ \E url \in env.urls, keywords \in env.keywordLists, cfg \in env.configs :
       \E r \in ScrapeUrlRuns(url, keywords, cfg, openaiKey) :
         probe' = [fn |-> "scrapeUrl",
                   args |-> [url |-> url, keywords |-> keywords, cfg |-> cfg],
                   run |-> r]
  /\ UNCHANGED <<now, openaiKey, callPc, jobIdOf, pending, runPc, jobData,
                 scrapedData, runError, scrapingJobs, scrapedDocs, rawFiles,
                 writes, faults, resolved, request, voiceVars>>

\* One call of extractMainContent(fullText, keywords) on an agent
\* constructed with cfg.
CallExtractMainContentIn(env) ==
  /\ probe = NoProbe
  /\ \E fullText \in env.texts, keywords \in env.keywordLists,
        cfg \in env.configs :
       \E r \in ExtractMainContentRuns(fullText, keywords, cfg, openaiKey) :
         probe' = [fn |-> "extractMainContent",
                   args |-> [fullText |-> fullText, keywords |-> keywords,
                             cfg |-> cfg],
                   run |-> r]
  /\ UNCHANGED <<now, openaiKey, callPc, jobIdOf, pending, runPc, jobData,
                 scrapedData, runError, scrapingJobs, scrapedDocs, rawFiles,
                 writes, faults, resolved, request, voiceVars>>

\* One call of scrapeUrl(url, options) of web-scraper.js.
CallWsScrapeUrlIn(env) ==
  /\ probe = NoProbe
  /\ \E url \in env.urls, options \in env.options :
       \E r \in WsScrapeUrlRuns(url, WsMaxRetries(options), 0, <<>>) :
         probe' = [fn |-> "wsScrapeUrl",
                   args |-> [url |-> url, options |-> options],
                   run |-> r]
  /\ UNCHANGED <<now, openaiKey, callPc, jobIdOf, pending, runPc, jobData,
                 scrapedData, runError, scrapingJobs, scrapedDocs, rawFiles,
                 writes, faults, resolved, request, voiceVars>>

\* One call of processWithAI(extractedData, url, options) of
\* web-scraper.js.
CallProcessWithAIIn(env) ==
  /\ probe = NoProbe
  /\ \E text \in env.texts, options \in env.options :
       \E r \in ProcessWithAIRuns([title |-> "T", text |-> text], options) :
         probe' = [fn |-> "processWithAI",
                   args |-> [text |-> text, options |-> options],
                   run |-> r]
  /\ UNCHANGED <<now, openaiKey, callPc, jobIdOf, pending, runPc, jobData,
                 scrapedData, runError, scrapingJobs, scrapedDocs, rawFiles,
                 writes, faults, resolved, request, voiceVars>>

\* ------------------------------------------------- specifications
StartScraping(c) == StartScrapingIn(c, FullEnv)

ScrapeNext(c) == ScrapeNextIn(c, FullEnv)

Next ==
  \/ Tick
  \/ \E c \in Calls :
       \/ StartScraping(c)
       \/ DbSetQueued(c)
       \/ LogCreated(c)
       \/ UpdateRunning(c)
       \/ GetJob(c)
       \/ ScrapeNext(c)
       \/ CloseBrowser(c)
       \/ SaveScrapedData(c)
       \/ UploadRaw(c)
       \/ UpdateCompleted(c)
       \/ LogCompleted(c)
       \/ UpdateFailed(c)
       \/ LogFailed(c)

Spec == Init /\ [][Next]_vars

\* ============================================================ claims
Terminal == {"completed", "failed"}

Final == {"done", "rejected"}

\* the job record of call c
JobOf(c) == scrapingJobs[jobIdOf[c]]

\* the status changes the state machine queued -> running ->
\* {completed | failed} allows; a record is created queued
AllowedChanges ==
  { <<"none", "queued">>, <<"queued", "running">>,
    <<"running", "completed">>, <<"running", "failed">> }

\* C1: every change of a job record's status is queued -> running,
\* running -> completed or running -> failed: a job never leaves queued
\* for a terminal status.
C1_StatusChanges ==
  [][ \A id \in Ids :
        scrapingJobs'[id].status # scrapingJobs[id].status
        => <<scrapingJobs[id].status, scrapingJobs'[id].status>> \in AllowedChanges
    ]_vars

StartScrapingLean(c) == StartScrapingIn(c, LeanEnv)

ScrapeNextLean(c) == ScrapeNextIn(c, LeanEnv)

\* the steps of the run of call c in LeanEnv: each is a collaborator call
\* settling
RunStepLean(c) ==
  \/ UpdateRunning(c)
  \/ GetJob(c)
  \/ ScrapeNextLean(c)
  \/ CloseBrowser(c)
  \/ SaveScrapedData(c)
  \/ UploadRaw(c)
  \/ UpdateCompleted(c)
  \/ LogCompleted(c)
  \/ UpdateFailed(c)
  \/ LogFailed(c)

NextLean ==
  \/ Tick
  \/ \E c \in Calls :
       \/ StartScrapingLean(c)
       \/ DbSetQueued(c)
       \/ LogCreated(c)
       \/ RunStepLean(c)

\* The jobs in LeanEnv, where every collaborator call a run awaits
\* eventually returns or fails.
SpecFair ==
  /\ Init
  /\ [][NextLean]_vars
  /\ \A c \in Calls : WF_vars(RunStepLean(c))

\* the last status call c or its run wrote
LastWrite(c) == IF writes[c] = <<>> THEN "none" ELSE writes[c][Len(writes[c])]

\* C3: every created job eventually has a terminal status, when every
\* collaborator call its run awaits eventually returns or fails.
C3_EventuallyTerminal ==
  \A c \in Calls :
    (runPc[c] # "none") ~> (jobIdOf[c] # NoId /\ JobOf(c).status \in Terminal)

\* ----------------------------------------------- two calls side by side
Pair == 1..PairCalls

\* PairEnv: callers pass an empty URL list, so the loop of a run has no
\* pass to make.
PairEnv ==
  [urlLists |-> {<<>>},
   keywordLists |-> {<<>>},
   faults |-> {},
   redirects |-> FALSE]

StartScrapingPair(c) == StartScrapingIn(c, PairEnv)

NextPair ==
  \/ Tick
  \/ \E c \in Pair :
       \/ StartScrapingPair(c)
       \/ DbSetQueued(c)
       \/ LogCreated(c)
       \/ UpdateRunning(c)
       \/ GetJob(c)
       \/ CloseBrowser(c)
       \/ SaveScrapedData(c)
       \/ UploadRaw(c)
       \/ UpdateCompleted(c)
       \/ LogCompleted(c)
       \/ UpdateFailed(c)
       \/ LogFailed(c)

\* Two calls of startScraping whose jobs run interleaved.
SpecPair == InitWith(Pair) /\ [][NextPair]_vars

\* C11: any two calls that have been given a job id have been given
\* different ids, also when both read the clock in the same millisecond.
C11_DistinctIds ==
  \A c1, c2 \in DOMAIN jobIdOf :
    (c1 # c2 /\ jobIdOf[c1] # NoId /\ jobIdOf[c2] # NoId) =>
      jobIdOf[c1] # jobIdOf[c2]

\* ------------------------------------------- requests to the callable
\* EntryEnv: the data the callable function receives, and the per-URL
\* failures of its jobs.
EntryEnv ==
  [urls |-> {WikiUrl},
   queries |-> { <<>>, <<"weather">>, <<"what is", " ", "AI">>, <<"AI">> },
   maxSearchResults |-> {0, 0 - 1},
   urlLists |-> {},
   keywordLists |-> {<<>>},
   faults |-> {"get", "puppeteer.launch"},
   redirects |-> FALSE,
   options |-> {[maxRetries |-> 0, maxLength |-> 0]},
   wsFaults |-> {"get", "openai", "set scrape_errors"}]

\* no request has reached the callable function yet
NoCallYet == \A c \in Calls : callPc[c] = "idle"

\* A behaviour holds requests to one entry point: to the callable
\* function, to webScraper or to searchWeb.
OnCall(c) == probe = NoProbe /\ OnCallIn(c, EntryEnv)

ScrapeNextEntry(c) == ScrapeNextIn(c, EntryEnv)

WebScraperCall == NoCallYet /\ WebScraperCallIn(EntryEnv)

SearchWebCall == NoCallYet /\ SearchWebCallIn(EntryEnv)

NextEntry ==
  \/ Tick
  \/ WebScraperCall
  \/ SearchWebCall
  \/ \E c \in Calls :
       \/ OnCall(c)
       \/ SearchSettles(c)
       \/ DbSetQueued(c)
       \/ LogCreated(c)
       \/ UpdateRunning(c)
       \/ GetJob(c)
       \/ ScrapeNextEntry(c)
       \/ CloseBrowser(c)
       \/ SaveScrapedData(c)
       \/ UploadRaw(c)
       \/ UpdateCompleted(c)
       \/ LogCompleted(c)
       \/ UpdateFailed(c)
       \/ LogFailed(c)

\* The jobs that requests to the callable function create.
SpecEntry == Init /\ [][NextEntry]_vars

\* C12: no job record the callable function created holds an empty URL
\* list.
C12_NoEmptyJob ==
  \A id \in Ids : scrapingJobs[id].exists => scrapingJobs[id].urls # <<>>

\* the data of a request names neither a url nor a query
Neither(data) == data.url = NoUrl /\ data.query = <<>>

\* C13: a request with neither url nor query is rejected by each entry
\* point before any job exists: the callable function throws with no id
\* made, no record handed to set() or written and no run started;
\* webScraper returns a failure having fetched nothing and stored no
\* scrape; searchWeb returns a failure.
C13_NeitherIsRejected ==
  /\ \A c \in Calls :
       (callPc[c] # "idle" /\ Neither(request[c])) =>
         /\ callPc[c] = "invalid"
         /\ jobIdOf[c] = NoId
         /\ ~pending[c].exists
         /\ runPc[c] = "none"
         /\ writes[c] = <<>>
  /\ (probe.fn = "webScraper" /\ Neither(probe.args)) =>
       /\ probe.run.threw \/ ~probe.run.value.success
       /\ "scrapes" \notin probe.run.stored
       /\ \A i \in DOMAIN probe.run.trace : probe.run.trace[i].op # "get"
  /\ (probe.fn = "searchWeb" /\ Neither(probe.args)) =>
       ~probe.run.value.success

C13_Witness ==
  /\ \E c \in Calls : callPc[c] = "invalid" /\ Neither(request[c])
  /\ \A id \in Ids : ~scrapingJobs[id].exists

\* --------------------------------------------- one function at a time
\* a URL of a host that is not allow-listed, naming an allow-listed
\* domain in its query string
RefUrl == [host |-> <<"example.com">>, path |-> <<"/?ref=", "wikipedia.org">>]

BritannicaUrl == [host |-> <<"www.", "britannica.com">>, path |-> <<"/">>]

\* the configurations an agent is constructed with
Configs ==
  { [DefaultConfig EXCEPT !.maxRetries = r, !.maxContentLength = len,
                          !.usePuppeteer = p, !.enableAIExtraction = ai]
    : r \in 1..maxRetries, len \in {MaxText - 1, MaxText, maxContentLength},
      p \in BOOLEAN, ai \in BOOLEAN }

\* the texts handed to a summarizer
Texts == UNION {[1..k -> {"a", " "}] : k \in {0, MaxText - 1, MaxText, MaxText + 1}}

\* the options of web-scraper.js; 0 stands for an option not given
Options ==
  { [maxRetries |-> r, maxLength |-> len]
    : r \in 0..maxRetries, len \in {0, MaxText - 1, MaxText} }

StepEnv ==
  [urls |-> {WikiUrl, PlainUrl, RefUrl, BritannicaUrl},
   keywordLists |-> KeywordLists,
   configs |-> Configs,
   texts |-> Texts,
   options |-> Options]

CallScrapeUrl == CallScrapeUrlIn(StepEnv)

CallExtractMainContent == CallExtractMainContentIn(StepEnv)

CallWsScrapeUrl == CallWsScrapeUrlIn(StepEnv)

CallProcessWithAI == CallProcessWithAIIn(StepEnv)

NextStep ==
  \/ CallScrapeUrl
  \/ CallExtractMainContent
  \/ CallWsScrapeUrl
  \/ CallProcessWithAI

\* One call of one function of the per-URL step, on an agent constructed
\* with any of Configs.
SpecStep == Init /\ [][NextStep]_vars

\* the GET attempts of a trace, the waits of a trace, and its other calls
Gets(trace) == SelectSeq(trace, LAMBDA e : e.op = "get")

Waits(trace) == SelectSeq(trace, LAMBDA e : e.op = "wait")

Rest(trace) == SelectSeq(trace, LAMBDA e : e.op \notin {"get", "wait"})

\* how the GET attempts of a trace went, in order
Outcomes(trace) == [i \in DOMAIN Gets(trace) |-> Gets(trace)[i].ok]

\* the probe is a call of scrapeUrl that took the lightweight strategy
LightProbe ==
  /\ probe.fn = "scrapeUrl"
  /\ UsesLightweight(probe.args.url, probe.args.cfg)

\* C14: with maxRetries = 3, a lightweight fetch whose attempts go fail,
\* fail, success returns what a fetch returns whose first attempt
\* succeeds with the same response and the same later calls; the two
\* differ by the two failed attempts and the waits of retryDelay * 2 and
\* retryDelay * 4 after them.  The same holds for scrapeUrl of
\* web-scraper.js with waits of 2000 and 4000 ms.
C14_ThirdAttemptSameResult ==
  /\ (LightProbe /\ probe.args.cfg.maxRetries = 3
      /\ Outcomes(probe.run.trace) = <<FALSE, FALSE, TRUE>>) =>
       /\ Waits(probe.run.trace) =
            << Event("wait", probe.args.cfg.retryDelay * 2, TRUE),
               Event("wait", probe.args.cfg.retryDelay * 4, TRUE) >>
       /\ \E r \in ScrapeUrlRuns(probe.args.url, probe.args.keywords,
                                 probe.args.cfg, openaiKey) :
            /\ Outcomes(r.trace) = <<TRUE>>
            /\ Waits(r.trace) = <<>>
            /\ Rest(r.trace) = Rest(probe.run.trace)
            /\ r.resolved = probe.run.resolved
            /\ r.threw = probe.run.threw
            /\ r.value = probe.run.value
  /\ (probe.fn = "wsScrapeUrl" /\ WsMaxRetries(probe.args.options) = 3
      /\ Outcomes(probe.run.trace) = <<FALSE, FALSE, TRUE>>) =>
       /\ Waits(probe.run.trace) =
            <<Event("wait", 2000, TRUE), Event("wait", 4000, TRUE)>>
       /\ \E r \in WsScrapeUrlRuns(probe.args.url, 3, 0, <<>>) :
            /\ Outcomes(r.trace) = <<TRUE>>
            /\ Waits(r.trace) = <<>>
            /\ r.threw = probe.run.threw
            /\ r.html = probe.run.html
            /\ r.url = probe.run.url

C14_Witness ==
  /\ LightProbe
  /\ probe.args.cfg.maxRetries = 3
  /\ Outcomes(probe.run.trace) = <<FALSE, FALSE, TRUE>>
  /\ probe.run.value.success

\* C15: a lightweight fetch makes at most maxRetries GET attempts; when
\* every attempt failed it made exactly maxRetries of them, no wait
\* follows the last, and it ends in a failure with the error of the last
\* attempt: scrapeUrl returns a failed PageResult carrying that message,
\* and scrapeUrl of web-scraper.js throws an error that quotes it.
C15_RetriesExhausted ==
  /\ LightProbe =>
       LET limit == probe.args.cfg.maxRetries
           outcomes == Outcomes(probe.run.trace)
       IN /\ Len(outcomes) <= limit
          /\ (\A i \in DOMAIN outcomes : ~outcomes[i]) =>
               /\ Len(outcomes) = limit
               /\ Len(Waits(probe.run.trace)) = limit - 1
               /\ ~probe.run.threw
               /\ ~probe.run.value.success
               /\ "error" \in probe.run.value.fields
               /\ probe.run.value.error = GetError(limit)
               /\ probe.run.value.url = probe.args.url
  /\ probe.fn = "wsScrapeUrl" =>
       LET limit == WsMaxRetries(probe.args.options)
           outcomes == Outcomes(probe.run.trace)
       IN /\ Len(outcomes) <= limit
          /\ (\A i \in DOMAIN outcomes : ~outcomes[i]) =>
               /\ Len(outcomes) = limit
               /\ Len(Waits(probe.run.trace)) = limit - 1
               /\ probe.run.threw
               /\ probe.run.error = WsGiveUpError(limit, limit)

C15_Witness ==
  /\ LightProbe
  /\ probe.args.cfg.maxRetries = 3
  /\ Outcomes(probe.run.trace) = <<FALSE, FALSE, FALSE>>
  /\ probe.run.value.error = GetError(3)

\* every successful call of op in trace is followed by a call of closer
ReleasedBy(trace, op, closer) ==
  \A i \in DOMAIN trace :
    (trace[i].op = op /\ trace[i].ok) =>
      \E j \in DOMAIN trace : j > i /\ trace[j].op = closer

\* C16: once a call of scrapeUrl has ended, whether it returned a result
\* or threw, the browser it launched has been handed to browser.close()
\* and the page it opened to page.close().
C16_SessionsClosed ==
  probe.fn = "scrapeUrl" =>
    /\ ReleasedBy(probe.run.trace, "puppeteer.launch", "browser.close")
    /\ ReleasedBy(probe.run.trace, "browser.newPage", "page.close")

\* the domains scrapeUrl fetches without a browser
StaticDomains == {"wikipedia.org", "britannica.com"}

\* the host of url is on one of the StaticDomains
OnAllowList(url) == StaticDomains \cap Range(url.host) # {}

\* the run of the probe fetched without a browser
TookLightweight ==
  /\ ~probe.run.threw
  /\ probe.run.value.method = "lightweight"
  /\ \A i \in DOMAIN probe.run.trace : probe.run.trace[i].op # "puppeteer.launch"

\* the run of the probe began by launching a browser
TookRendered ==
  /\ probe.run.trace # <<>>
  /\ probe.run.trace[1].op = "puppeteer.launch"

\* C17: scrapeUrl fetches without a browser whenever the agent was
\* constructed with usePuppeteer false, and for every URL whose host is on
\* an allow-listed domain even with usePuppeteer true.
C17_LightweightWhenDisabledOrStatic ==
  (probe.fn = "scrapeUrl"
   /\ (~probe.args.cfg.usePuppeteer \/ OnAllowList(probe.args.url))) =>
    TookLightweight

C17_Witness ==
  /\ probe.fn = "scrapeUrl"
  /\ probe.args.cfg.usePuppeteer
  /\ probe.args.url = BritannicaUrl
  /\ TookLightweight

\* C18: with usePuppeteer true, scrapeUrl launches a browser for every URL
\* whose host is not on an allow-listed domain, whatever its path and
\* query string hold.
C18_RenderedByHostOnly ==
  (probe.fn = "scrapeUrl" /\ probe.args.cfg.usePuppeteer
   /\ ~OnAllowList(probe.args.url)) =>
    TookRendered

\* the calls of op in trace
CallsOf(trace, op) == SelectSeq(trace, LAMBDA e : e.op = op)

\* the run of the probe ended in failure with the error of op, unless
\* closing the page or the browser threw first
EndedInFailureOf(op) ==
  \/ probe.run.threw
  \/ /\ ~probe.run.value.success
     /\ probe.run.value.error = ErrorOf(op)

\* C19: a rendered fetch calls page.goto at most once and reads the page
\* at most once; when the navigation fails the page is never read and the
\* fetch ends in failure with the navigation error, and when reading the
\* page fails the fetch ends in failure with that error.
C19_OneNavigation ==
  (probe.fn = "scrapeUrl" /\ TookRendered) =>
    LET navs == CallsOf(probe.run.trace, "page.goto")
        reads == CallsOf(probe.run.trace, "page.evaluate")
    IN /\ Len(navs) <= 1
       /\ Len(reads) <= 1
       /\ (navs # <<>> /\ ~navs[1].ok) =>
            reads = <<>> /\ EndedInFailureOf("page.goto")
       /\ (reads # <<>> /\ ~reads[1].ok) => EndedInFailureOf("page.evaluate")

C19_Witness ==
  /\ probe.fn = "scrapeUrl"
  /\ TookRendered
  /\ CallsOf(probe.run.trace, "page.goto") = <<Event("page.goto", 0, FALSE)>>
  /\ ~probe.run.threw
  /\ probe.run.value.error = ErrorOf("page.goto")

\* the truncation marker
Marker == <<".", ".", ".">>

\* text cut to limit characters with the marker after them, or text
\* itself when it is no longer than limit
HardCut(text, limit) ==
  IF Len(text) <= limit THEN text ELSE SubSeq(text, 1, limit) \o Marker

\* C20: the page text in the prompt of every summarizer is the extracted
\* text when that is at most maxLength long, and otherwise its first
\* maxLength characters followed by the marker, both in
\* extractMainContent and in processWithAI.
C20_TruncatedWithMarker ==
  /\ probe.fn = "extractMainContent" =>
       probe.run.sent = HardCut(probe.args.fullText,
                                probe.args.cfg.maxContentLength)
  /\ probe.fn = "processWithAI" =>
       probe.run.sent = HardCut(probe.args.text, WsMaxLength(probe.args.options))

\* the run of call c got past the loop with a result for every URL
LoopDone(c) ==
  /\ runPc[c] \notin {"none", "update_running", "get", "scrape"}
  /\ Len(scrapedData[c]) = Len(jobData[c].urls)

AllFailed(c) ==
  /\ LoopDone(c)
  /\ jobData[c].urls # <<>>
  /\ \A i \in DOMAIN scrapedData[c] : ~scrapedData[c][i].success

\* C4: a run that has ended, whose every URL failed and none of whose
\* persistence, storage or logging calls failed, left the job completed
\* with resultCount = N and successCount = 0.
C4_AllFailedCompletes ==
  \A c \in Calls :
    (runPc[c] \in Final /\ AllFailed(c) /\ faults[c] = {}) =>
      /\ JobOf(c).status = "completed"
      /\ JobOf(c).counts = <<Len(jobData[c].urls), 0>>

\* C5: a run none of whose persistence, storage or logging calls failed
\* never writes status failed, and a failed job record carries the message
\* of the error the catch block caught.
C5_FailedOnlyFromPersistence ==
  \A c \in Calls :
    /\ faults[c] = {} => "failed" \notin Range(writes[c])
    /\ LastWrite(c) = "failed" =>
         JobOf(c).error = runError[c] /\ runError[c] # ""

\* the run of call c is handing its results to persistence or has done so
Handed(c) == runPc[c] \in {"save", "upload", "update_completed", "log_completed"}

C7_FailureIsolated ==
  [][ \A c \in Calls :
        (runPc[c] = "scrape" /\ <<runPc[c], scrapedData[c]>>' # <<runPc[c], scrapedData[c]>>) =>
          LET i == Len(scrapedData[c]) + 1
          IN /\ Len(scrapedData'[c]) = i
             /\ SubSeq(scrapedData'[c], 1, i - 1) = scrapedData[c]
             /\ scrapedData'[c][i].url = jobData[c].urls[i]
             /\ runPc'[c] = IF i < Len(jobData[c].urls) THEN "scrape" ELSE "close"
             /\ runError'[c] = runError[c]
             /\ scrapingJobs' = scrapingJobs ]_vars

C7_Witness ==
  \E c \in Calls :
    /\ runPc[c] = "close"
    /\ Len(scrapedData[c]) = 2
    /\ ~scrapedData[c][1].success
    /\ scrapedData[c][1].fields = CatchFields
    /\ scrapedData[c][2].success

ContentFields == {"title", "mainContent", "keywordMatches", "textLength"}

IsSuccess(d) ==
  /\ d.success
  /\ ContentFields \subseteq d.fields
  /\ "error" \notin d.fields

IsFailure(d) ==
  /\ ~d.success
  /\ "error" \in d.fields
  /\ d.error # ""

\* C8: every entry of a run's result list is either a success with the
\* content fields and no error, or a failure with an error message, never
\* both and never neither.
C8_SuccessXorFailure ==
  \A c \in Calls : \A i \in DOMAIN scrapedData[c] :
    IsSuccess(scrapedData[c][i]) # IsFailure(scrapedData[c][i])

C8_Witness ==
  \E c \in Calls :
    /\ Len(scrapedData[c]) = 2
    /\ scrapedData[c][1].fields = CatchFields
    /\ scrapedData[c][2].fields = PageOkFields

\* every summarizer stage the run tried failed, and nothing else did
SummarizerDown(r) ==
  /\ "generateText" \in FailedOps(r)
  /\ FailedOps(r) \subseteq {"openai", "generateText"}

\* C9: when every summarizer stage fails and nothing else does, scrapeUrl
\* does not throw and returns success=true with a degraded summary; so no
\* entry of a result list is a failure carrying the summarizer's error.
C9_SummarizerDownDegrades ==
  \A c \in Calls :
    /\ runPc[c] = "scrape" =>
         \A r \in EnvRuns(jobData[c].urls[Len(scrapedData[c]) + 1],
                          jobData[c].keywords, FullEnv) :
           SummarizerDown(r) =>
             /\ ~r.threw
             /\ r.value.success
             /\ "degraded" \in r.value.fields
    /\ \A i \in DOMAIN scrapedData[c] :
         scrapedData[c][i].error # ErrorOf("generateText")

\* C10: the run of a job starts only after the queued record is written,
\* so queued is the first status written and running never precedes it;
\* and once the record is written the return of startScraping waits for
\* logActivity only, wherever the run stands.
C10_QueuedFirstReturnEarly ==
  \A c \in Calls :
    /\ runPc[c] # "none" => writes[c] # <<>> /\ writes[c][1] = "queued"
    /\ callPc[c] \in {"log", "returned"} => writes[c] # <<>> /\ writes[c][1] = "queued"
    /\ callPc[c] = "log" => ENABLED LogCreated(c)

C10_Witness ==
  \E c \in Calls :
    /\ callPc[c] = "returned"
    /\ runPc[c] = "update_running"
    /\ JobOf(c).status = "queued"

\* ================================================ keyword scoring
\* toUpperCase() of a character
Upper(ch) ==
  CASE ch = "a" -> "A"
    [] ch = "i" -> "I"
    [] ch = "g" -> "G"
    [] OTHER -> ch

LowerText(t) == [i \in DOMAIN t |-> Lower(t[i])]

UpperText(t) == [i \in DOMAIN t |-> Upper(t[i])]

\* The scoring loop body for one keyword: the pattern is compiled, then
\* matched against the text.
ScoreRuns(textContent, keyword) ==
  IF RegexCompiles(keyword)
  THEN { [threw |-> FALSE, count |-> CountMatches(textContent, keyword),
          error |-> ""] }
  ELSE { [threw |-> TRUE, count |-> 0, error |-> ErrorOf("new RegExp")] }

\* "GPT-4 is here. GPT-4 rocks." in the characters of the model
SampleText ==
  <<"G", "-", "4", " ", "i", " ", "a", ".", " ", "G", "-", "4", " ", "a", "i", ".">>

\* the texts scored: every text of up to MaxScored characters, and the
\* sample
MaxScored == 4

ScoredTexts ==
  UNION {[1..k -> {"a", "A", "i", " "}] : k \in 0..MaxScored} \cup {SampleText}

\* the keywords scored; every character of a keyword that compiles
\* stands for itself in the pattern
Keywords ==
  { <<"a", "i">>, <<"A", "I">>, <<"a">>, <<"g">>, <<"G", "-", "4">>,
    <<"(">>, <<"a", "+", "+">> }

\* One pass of the scoring loop body for one keyword.
CallScore ==
  /\ probe = NoProbe
  /\ \E text \in ScoredTexts, keyword \in Keywords :
       \E r \in ScoreRuns(text, keyword) :
         probe' = [fn |-> "score",
                   args |-> [text |-> text, keyword |-> keyword],
                   run |-> r]
  /\ UNCHANGED <<now, openaiKey, callPc, jobIdOf, pending, runPc, jobData,
                 scrapedData, runError, scrapingJobs, scrapedDocs, rawFiles,
                 writes, faults, resolved, request, voiceVars>>

\* the keyword lists of a job
ScoredKeywordLists ==
  { <<>>, << <<"a", "i">> >>, << <<"a", "i">>, <<"a">> >>,
    << <<"a", "i">>, <<"A", "I">> >>, << <<"a", "i">>, <<"a", "i">> >>,
    << <<"(">> >> }

ScoreEnv ==
  [urls |-> {WikiUrl, PlainUrl},
   keywordLists |-> ScoredKeywordLists,
   configs |-> { [DefaultConfig EXCEPT !.maxRetries = 1, !.usePuppeteer = p,
                                       !.enableAIExtraction = ai]
                 : p \in BOOLEAN, ai \in BOOLEAN }]

CallScrapeUrlScored == CallScrapeUrlIn(ScoreEnv)

NextScore ==
  \/ CallScore
  \/ CallScrapeUrlScored

\* One scoring of one keyword, or one call of scrapeUrl with a keyword
\* list.
SpecScore == Init /\ [][NextScore]_vars

\* the probe is a call of scrapeUrl that returned a successful result
SuccessProbe ==
  /\ probe.fn = "scrapeUrl"
  /\ ~probe.run.threw
  /\ probe.run.value.success

\* C21: in every successful result of scrapeUrl the map has one count per
\* keyword of the list and totalKeywordMatches is the sum of these
\* counts; with an empty keyword list the map is empty and the total 0,
\* and a call whose collaborators all answer returns a successful result.
C21_TotalIsSum ==
  /\ SuccessProbe =>
       LET v == probe.run.value
       IN /\ DOMAIN v.keywordMatches = Range(probe.args.keywords)
          /\ v.totalKeywordMatches =
               Cardinality({ x \in (DOMAIN v.keywordMatches) \X (1..v.textLength)
                             : x[2] <= v.keywordMatches[x[1]] })
          /\ \A kw \in DOMAIN v.keywordMatches :
               v.keywordMatches[kw] \in 0..v.textLength
          /\ probe.args.keywords = <<>> =>
               v.keywordMatches = NoMatches /\ v.totalKeywordMatches = 0
  /\ (probe.fn = "scrapeUrl" /\ probe.args.keywords = <<>>
      /\ FailedOps(probe.run) = {}) => SuccessProbe

C21_Witness ==
  /\ SuccessProbe
  /\ Cardinality(DOMAIN probe.run.value.keywordMatches) = 2
  /\ probe.run.value.totalKeywordMatches = 4

\* C22: scoring a keyword against a text gives one count, the number of
\* whole-word occurrences whatever the letter case of the text, 0 for a
\* keyword that is not in the text, 2 for "GPT-4" in the sample, and no
\* keyword makes it throw.
C22_ScoringIsPure ==
  probe.fn = "score" =>
    LET text == probe.args.text
        keyword == probe.args.keyword
    IN /\ ~probe.run.threw
       /\ ScoreRuns(text, keyword) = {probe.run}
       /\ \A r \in ScoreRuns(LowerText(text), keyword)
                   \cup ScoreRuns(UpperText(text), keyword) :
            r.count = probe.run.count
       /\ (\A p \in 1..Len(text) :
             \E k \in 1..Len(keyword) :
               p + k - 1 > Len(text) \/ Lower(text[p + k - 1]) # Lower(keyword[k]))
            => probe.run.count = 0
       /\ (text = SampleText /\ keyword = <<"G", "-", "4">>) => probe.run.count = 2


\* ============================================== content extraction
\* A document is the sequence of the elements of its body in document
\* order, each with its tag and the text it holds; the script, style and
\* navigation elements are already removed.
MaxElements == 3

Tags == {"main", "div", "section", "p"}

ElementTexts ==
  { <<>>, <<" ">>, <<"a">>, <<"a", "a">>, <<" ", "a", " ">>,
    <<"a", " ", "\n", "a">>, <<"a", "\\", "s", "a">> }

\* two div containers, the text of the second five times as long as the
\* text of the first (the spec's 100 and 500 characters, a tenth each)
SampleDoc ==
  << [tag |-> "div", text |-> [i \in 1..10 |-> "a"]],
     [tag |-> "div", text |-> [i \in 1..50 |-> "i"]] >>

Docs ==
  UNION { [1..k -> [tag : Tags, text : ElementTexts]] : k \in 0..MaxElements }
  \cup {SampleDoc}

RECURSIVE Concat(_)
Concat(texts) == IF texts = <<>> THEN <<>> ELSE Head(texts) \o Concat(Tail(texts))

\* $('body').text()
BodyText(doc) == Concat([i \in DOMAIN doc |-> doc[i].text])

\* $('main, article, #content, .content, .post, .article')
Semantic(doc) == {i \in DOMAIN doc : doc[i].tag = "main"}

\* a scan that keeps the last of the containers with the longest text
RECURSIVE LargestLast(_, _, _, _)
LargestLast(doc, i, maxTextLength, maxTextElement) ==
  IF i > Len(doc) THEN maxTextElement
  ELSE LET textLength == Len(Trim(doc[i].text))
       IN IF doc[i].tag \in {"div", "section"} /\ textLength > 0
             /\ textLength >= maxTextLength
          THEN LargestLast(doc, i + 1, textLength, i)
          ELSE LargestLast(doc, i + 1, maxTextLength, maxTextElement)

\* $('div, section').each(...) from element i on: the element the scan
\* ends with, 0 for the body
RECURSIVE Largest(_, _, _, _)
Largest(doc, i, maxTextLength, maxTextElement) ==
  IF i > Len(doc) THEN maxTextElement
  ELSE LET textLength == Len(Trim(doc[i].text))
       IN IF doc[i].tag \in {"div", "section"} /\ textLength > maxTextLength
          THEN Largest(doc, i + 1, textLength, i)
          ELSE Largest(doc, i + 1, maxTextLength, maxTextElement)

\* mainElement: the set of elements selected, {0} for the body
MainElement(doc) ==
  IF Semantic(doc) # {} THEN Semantic(doc) ELSE {Largest(doc, 1, 0, 0)}

\* mainElement.text()
MainText(doc) ==
  IF MainElement(doc) = {0} THEN BodyText(doc)
  ELSE Concat([i \in DOMAIN doc |->
                 IF i \in MainElement(doc) THEN doc[i].text ELSE <<>>])

\* the text each extractor makes of the main element
Extractors == {"scrapeWithoutBrowser", "extractContent"}

ExtractText(doc, extractor) ==
  IF extractor = "scrapeWithoutBrowser"
  THEN CollapseWs(Trim(MainText(doc)))
  ELSE ReplaceBackslashS(Trim(MainText(doc)))

\* One extraction of the main text of a document.
CallExtractText ==
  /\ probe = NoProbe
  /\ \E doc \in Docs, extractor \in Extractors :
       probe' = [fn |-> "extractText",
                 args |-> [doc |-> doc, extractor |-> extractor],
                 run |-> [selected |-> MainElement(doc),
                          text |-> ExtractText(doc, extractor)]]
  /\ UNCHANGED <<now, openaiKey, callPc, jobIdOf, pending, runPc, jobData,
                 scrapedData, runError, scrapingJobs, scrapedDocs, rawFiles,
                 writes, faults, resolved, request, voiceVars>>

NextExtract == CallExtractText

SpecExtract == Init /\ [][NextExtract]_vars

\* the div and section elements of doc and the length of their trimmed
\* text
Containers(doc) == {i \in DOMAIN doc : doc[i].tag \in {"div", "section"}}

TextLength(doc, i) == Len(Trim(doc[i].text))

\* C23: when no semantic container matches, the extractor selects one
\* element: the first div or section in document order among those with
\* the greatest trimmed text length, or the body when no div or section
\* has text; of two div elements the second of which holds five times
\* the text of the first, the second is selected.
C23_LargestContainer ==
  (probe.fn = "extractText" /\ Semantic(probe.args.doc) = {}) =>
    LET doc == probe.args.doc
        withText == {i \in Containers(doc) : TextLength(doc, i) > 0}
    IN /\ Cardinality(probe.run.selected) = 1
       /\ \A sel \in probe.run.selected :
            IF withText = {} THEN sel = 0
            ELSE /\ sel \in withText
                 /\ \A i \in Containers(doc) :
                      /\ TextLength(doc, i) <= TextLength(doc, sel)
                      /\ TextLength(doc, i) = TextLength(doc, sel) => sel <= i
       /\ doc = SampleDoc => probe.run.selected = {2}

C23_Witness ==
  /\ probe.fn = "extractText"
  /\ Semantic(probe.args.doc) = {}
  /\ Len(probe.args.doc) = 3
  /\ probe.run.selected = {2}
  /\ TextLength(probe.args.doc, 3) = TextLength(probe.args.doc, 2)
  /\ probe.args.doc[3].tag = "section"

\* C24: the text an extractor returns has no leading or trailing
\* whitespace and no two whitespace characters in a row, and its only
\* whitespace character is the space, in scrapeWithoutBrowser and in
\* extractContent.
C24_WhitespaceCollapsed ==
  probe.fn = "extractText" =>
    LET text == probe.run.text
    IN /\ text = Trim(text)
       /\ \A i \in DOMAIN text : IsSpace(text[i]) => text[i] = " "
       /\ \A i \in 1..(Len(text) - 1) : ~(IsSpace(text[i]) /\ IsSpace(text[i + 1]))


\* ================================================== URL discovery
\* the words and phrases of a query, and the longest query
MaxWords == 3

QueryWords ==
  {"weather", "Weather", "news", "what is", "Who is", "when did", "wikipedia",
   " ", "AI"}

\* "what is quantum computing"
SampleQuery == <<"what is", " ", "quantum computing">>

Queries == SeqsUpTo(QueryWords, MaxWords) \cup {SampleQuery}

\* the values of maxResults a caller passes
ResultLimits == {0 - 1, 0, 1, 2, 3}

\* One call of searchForUrls(query, maxResults).
CallSearchForUrls ==
  /\ probe = NoProbe
  /\ \E query \in Queries, maxResults \in ResultLimits :
       \E r \in SearchForUrlsRuns(query, maxResults) :
         probe' = [fn |-> "searchForUrls",
                   args |-> [query |-> query, maxResults |-> maxResults],
                   run |-> r]
  /\ UNCHANGED <<now, openaiKey, callPc, jobIdOf, pending, runPc, jobData,
                 scrapedData, runError, scrapingJobs, scrapedDocs, rawFiles,
                 writes, faults, resolved, request, voiceVars>>

\* One call of searchForUrl(query) of web-scraper.js.
CallSearchForUrl ==
  /\ probe = NoProbe
  /\ \E query \in Queries :
       probe' = [fn |-> "searchForUrl",
                 args |-> [query |-> query],
                 run |-> [threw |-> FALSE, urls |-> <<SearchForUrl(query)>>,
                          error |-> "", trace |-> <<>>]]
  /\ UNCHANGED <<now, openaiKey, callPc, jobIdOf, pending, runPc, jobData,
                 scrapedData, runError, scrapingJobs, scrapedDocs, rawFiles,
                 writes, faults, resolved, request, voiceVars>>

NextSearch ==
  \/ CallSearchForUrls
  \/ CallSearchForUrl

SpecSearch == Init /\ [][NextSearch]_vars

\* C25: a call of searchForUrls does not throw, returns the empty list
\* when a call inside it failed, and returns at most maxResults URLs
\* (none when maxResults is negative).
C25_NeverThrowsAtMostMax ==
  probe.fn = "searchForUrls" =>
    /\ ~probe.run.threw
    /\ FailedOps(probe.run) # {} => probe.run.urls = <<>>
    /\ Len(probe.run.urls) <=
         (IF probe.args.maxResults < 0 THEN 0 ELSE probe.args.maxResults)

\* C26: searchForUrls("what is quantum computing", 3) whose calls all
\* answer returns at least one URL and does not throw, and
\* searchForUrls("", 3) returns the empty list and does not throw.
C26_SampleQueries ==
  (probe.fn = "searchForUrls" /\ probe.args.maxResults = 3) =>
    /\ (probe.args.query = SampleQuery /\ FailedOps(probe.run) = {}) =>
         ~probe.run.threw /\ Len(probe.run.urls) >= 1
    /\ probe.args.query = <<>> =>
         ~probe.run.threw /\ probe.run.urls = <<>>

\* the words of a query in lower case
WordsOf(query) == {LowerWord(query[i]) : i \in DOMAIN query}

\* the URLs that are no rule's: the search URLs of searchForUrls and the
\* fixed page of searchForUrl
FallbackUrls(query) ==
  {WikiSearchUrl(query), BritannicaSearchUrl(query), WebScrapingUrl}

\* C30: in searchForUrls and in searchForUrl, a query with 'weather'
\* yields no URL but the weather portal; otherwise one with 'news' no URL
\* but the news aggregator; otherwise one with who is, what is, when did
\* or where is and a topic left yields no URL but the lookup URL of the
\* topic; and a fallback URL is returned only when none of these holds.
C30_FirstRuleDecides ==
  probe.fn \in {"searchForUrls", "searchForUrl"} =>
    LET query == probe.args.query
        got == Range(probe.run.urls)
        topic == Trim(RemoveFirstQuestion(query))
        weather == "weather" \in WordsOf(query)
        news == ~weather /\ "news" \in WordsOf(query)
        lookup == /\ ~weather /\ ~news
                  /\ WordsOf(query) \cap QuestionPhrases # {}
                  /\ topic # <<>>
    IN /\ weather => got \subseteq {WeatherUrl}
       /\ news => got \subseteq {NewsUrl}
       /\ lookup => got \subseteq {WikiTopicUrl(topic)}
       /\ got \cap FallbackUrls(query) # {} => ~weather /\ ~news /\ ~lookup


MaxAttempts == 4

RetryEnv ==
  [urls |-> {WikiUrl, PlainUrl, BritannicaUrl},
   keywordLists |-> {<<>>},
   configs |-> { [DefaultConfig EXCEPT !.maxRetries = r, !.usePuppeteer = FALSE,
                                       !.enableAIExtraction = ai]
                 : r \in 1..MaxAttempts, ai \in BOOLEAN },
   options |-> { [maxRetries |-> r, maxLength |-> 0] : r \in 0..MaxAttempts }]

CallScrapeUrlRetrying == CallScrapeUrlIn(RetryEnv)

CallWsScrapeUrlRetrying == CallWsScrapeUrlIn(RetryEnv)

NextRetry ==
  \/ CallScrapeUrlRetrying
  \/ CallWsScrapeUrlRetrying

\* One fetch with a retry loop, of either module.
SpecRetry == Init /\ [][NextRetry]_vars

\* the probe is a fetch with a retry loop; its number of attempts and its
\* base delay
RetryProbe == LightProbe \/ probe.fn = "wsScrapeUrl"

AttemptLimit ==
  IF probe.fn = "wsScrapeUrl" THEN WsMaxRetries(probe.args.options)
  ELSE probe.args.cfg.maxRetries

BaseDelay ==
  IF probe.fn = "wsScrapeUrl" THEN 1000 ELSE probe.args.cfg.retryDelay

\* C28: in the retry loop of scrapeWithoutBrowser and of scrapeUrl of
\* web-scraper.js every failed attempt but the last allowed one is
\* followed by a wait and nothing else is; the first wait is twice the
\* base delay and each later wait twice the wait before it, so the wait
\* after the k-th failed attempt is the base delay times 2^k; no wait
\* follows the last allowed attempt.
C28_BackoffDoubles ==
  RetryProbe =>
    LET trace == probe.run.trace
        waits == Waits(trace)
    IN /\ \A i \in DOMAIN trace :
            /\ (trace[i].op = "get" /\ ~trace[i].ok /\ trace[i].arg < AttemptLimit) =>
                 i < Len(trace) /\ trace[i + 1].op = "wait"
            /\ (trace[i].op = "get" /\ ~trace[i].ok /\ trace[i].arg >= AttemptLimit) =>
                 i = Len(trace) \/ trace[i + 1].op # "wait"
            /\ trace[i].op = "wait" =>
                 i > 1 /\ trace[i - 1].op = "get" /\ ~trace[i - 1].ok
       /\ waits # <<>> => waits[1].arg = 2 * BaseDelay
       /\ \A j \in 1..(Len(waits) - 1) : waits[j + 1].arg = 2 * waits[j].arg

C28_Witness ==
  /\ RetryProbe
  /\ AttemptLimit = 4
  /\ Outcomes(probe.run.trace) = <<FALSE, FALSE, FALSE, FALSE>>
  /\ [j \in DOMAIN Waits(probe.run.trace) |-> Waits(probe.run.trace)[j].arg]
       = <<2000, 4000, 8000>>
  /\ probe.run.trace[Len(probe.run.trace)].op = "get"


\* ============================================ summarization chain
\* C29: in extractMainContent generateText is called only as the first
\* call when OPENAI_API_KEY is not set, or right after the OpenAI call
\* failed; when the OpenAI call succeeds the function returns its output
\* with no further call, and without the key OpenAI is never called.
C29_SecondStageAfterFirstFailed ==
  probe.fn = "extractMainContent" =>
    LET trace == probe.run.trace
    IN /\ \A i \in DOMAIN trace :
            trace[i].op = "generateText" =>
              \/ ~openaiKey /\ i = 1
              \/ openaiKey /\ i = 2 /\ trace[1].op = "openai" /\ ~trace[1].ok
       /\ \A i \in DOMAIN trace :
            (trace[i].op = "openai" /\ trace[i].ok) =>
              /\ openaiKey
              /\ trace = <<trace[i]>>
              /\ ~probe.run.threw
              /\ probe.run.text \in LlmOutputs
       /\ ~openaiKey => CallsOf(trace, "openai") = <<>>

C29_Witness ==
  /\ probe.fn = "extractMainContent"
  /\ openaiKey
  /\ Len(probe.run.trace) = 2
  /\ probe.run.trace[1].op = "openai" /\ ~probe.run.trace[1].ok
  /\ probe.run.trace[2].op = "generateText" /\ probe.run.trace[2].ok
  /\ ~probe.run.threw


\* ============================================== startScraping fails
\* C31: when a call of startScraping has thrown, it wrote no job record
\* and started no run; a call that wrote the record and started the run
\* and has ended has returned the job id.
C31_FailureLeavesNothing ==
  \A c \in Calls :
    /\ callPc[c] = "threw" => writes[c] = <<>> /\ runPc[c] = "none"
    /\ (writes[c] # <<>> /\ runPc[c] # "none" /\ callPc[c] \in {"returned", "threw"})
         => callPc[c] = "returned"


\* ================================================ webScraper fails
\* C32: a call of webScraper does not throw; when it got neither url nor
\* query, or the last attempt of its fetch, its parse or a write of its
\* own failed, it
\* returns success false with the message of the error; and it returns
\* success true only with the scrape record stored.
C32_NoExceptionEscapes ==
  probe.fn = "webScraper" =>
    /\ ~probe.run.threw
    /\ (\/ Neither(probe.args)
        \/ Outcomes(probe.run.trace) # <<>>
             /\ ~Outcomes(probe.run.trace)[Len(Outcomes(probe.run.trace))]
        \/ FailedOps(probe.run) \cap {"load", "set scrapes", "set scrape_errors"} # {})
         => ~probe.run.value.success /\ probe.run.value.error # ""
    /\ probe.run.value.success => "scrapes" \in probe.run.stored


\* ================================================== pollRunStatus
\* the variables of the scraper, which the voice server leaves alone
scraperVars ==
  <<now, openaiKey, callPc, jobIdOf, pending, runPc, jobData, scrapedData,
    runError, scrapingJobs, scrapedDocs, rawFiles, writes, faults, resolved,
    probe, request>>

\* a loop that stops on completed only
StopsOnCompleted(status) == status = "completed"

\* terminalStates.includes(runStatus.status)
IsTerminal(status) == status \in terminalStates

\* pollRunStatus(threadId, runId) is called: the loop variables are set
PollStart ==
  /\ poll.pc = "idle"
  /\ poll' = [NoPoll EXCEPT !.pc = "loop"]
  /\ UNCHANGED <<scraperVars, phoneToThreadMap, threads, ensured, sessions,
                 voicePc, answers, potentialTasks, reminders, services>>

\* One pass of the while loop: runs.retrieve rejects and the catch goes
\* on to the wait, or it reports a status; a terminal status breaks out
\* of the loop and the function returns runStatus.
PollIterate ==
  /\ poll.pc = "loop"
  /\ poll.iterations < maxIterations
  /\ \/ poll' = [poll EXCEPT !.iterations = @ + 1, !.retrievals = @ + 1]
     \/ \E status \in RunStatuses :
          poll' = [poll EXCEPT !.iterations = @ + 1, !.retrievals = @ + 1,
                               !.runStatus = status,
                               !.pc = IF IsTerminal(status) THEN "returned"
                                      ELSE "loop"]
  /\ UNCHANGED <<scraperVars, phoneToThreadMap, threads, ensured, sessions,
                 voicePc, answers, potentialTasks, reminders, services>>

\* the loop condition fails: return runStatus
PollExhausted ==
  /\ poll.pc = "loop"
  /\ poll.iterations >= maxIterations
  /\ poll' = [poll EXCEPT !.pc = "returned"]
  /\ UNCHANGED <<scraperVars, phoneToThreadMap, threads, ensured, sessions,
                 voicePc, answers, potentialTasks, reminders, services>>

NextPoll ==
  \/ PollStart
  \/ PollIterate
  \/ PollExhausted

\* One call of pollRunStatus, every timer and every retrieval of which
\* settles.
SpecPoll ==
  /\ Init
  /\ [][NextPoll]_vars
  /\ WF_vars(NextPoll)

\* C35: when pollRunStatus has returned, the status of the value it
\* returned is one of terminalStates.
C35_ReturnsTerminal ==
  poll.pc = "returned" => poll.runStatus \in terminalStates

\* C36: a call of pollRunStatus returns, it makes at most maxIterations
\* retrievals, and it makes none after one reported a terminal status.
C36_PollTerminates ==
  /\ [](poll.retrievals <= maxIterations)
  /\ []((poll.runStatus \in terminalStates) => poll.pc = "returned")
  /\ [][poll.pc = "returned" => poll'.retrievals = poll.retrievals]_vars
  /\ (poll.pc = "loop") ~> (poll.pc = "returned")

C36_Witness ==
  /\ poll.pc = "returned"
  /\ poll.retrievals = maxIterations
  /\ poll.runStatus = "requires_action"


\* ============================================ getAssistantResponse
\* what pollRunStatus can return: a run object with any status, or
\* undefined
PollOutcomes == RunStatuses \cup {"undefined"}

\* the tool calls a run that requires action asks for
MaxToolCalls == 2

ToolCallLists == SeqsUpTo({"getWeather", "searchWeb", "other"}, MaxToolCalls)

\* the tools the loop over toolCalls has an output for
KnownTools == {"getWeather", "searchWeb"}

\* messages.data, newest first: the assistant message the run produced
\* when it completed, the user message just added, and the assistant
\* message of an earlier turn when the thread has one
ThreadMessages(final, earlier) ==
  (IF final = "completed" THEN <<[role |-> "assistant", of |-> "this run"]>> ELSE <<>>)
  \o <<[role |-> "user", of |-> "this run"]>>
  \o (IF earlier THEN <<[role |-> "assistant", of |-> "earlier turn"]>> ELSE <<>>)

\* the end of getAssistantResponse, from messages.list on, with the
\* status final of runStatus
ReadAnswerRuns(final, earlier, trace) ==
  LET data == ThreadMessages(final, earlier)
      listed == Append(trace, Event("messages.list", 0, TRUE))
      found == {i \in DOMAIN data : data[i].role = "assistant"}
  IN { [threw |-> TRUE, text |-> "", final |-> final,
        error |-> ErrorOf("messages.list"),
        trace |-> Append(trace, Event("messages.list", 0, FALSE))] }
     \cup
     { IF found = {}
       THEN [threw |-> TRUE, text |-> "", final |-> final,
             error |-> "No assistant message found", trace |-> listed]
       ELSE [threw |-> FALSE,
             text |-> data[CHOOSE i \in found : \A j \in found : i <= j].of,
             final |-> final, error |-> "", trace |-> listed] }

\* the requires_action branch for toolCalls: the outputs are collected,
\* submitted when there are any, and the run is polled again
ToolRuns(toolCalls, earlier, trace) ==
  LET known == {i \in DOMAIN toolCalls : toolCalls[i] \in KnownTools}
      failed(op) ==
        [threw |-> TRUE, text |-> "", final |-> "requires_action",
         error |-> ErrorOf(op), trace |-> Append(trace, Event(op, 0, FALSE))]
      submitted == Append(trace, Event("submitToolOutputs", Cardinality(known), TRUE))
  IN IF known = {}
     THEN ReadAnswerRuns("requires_action", earlier, trace)
     ELSE { failed("JSON.parse"), failed("submitToolOutputs") }
          \cup
          { [threw |-> TRUE, text |-> "", final |-> "undefined",
             error |-> "Cannot read properties of undefined",
             trace |-> Append(submitted, Event("pollRunStatus", 0, TRUE))] }
          \cup
          UNION { ReadAnswerRuns(again, earlier,
                                 Append(submitted, Event("pollRunStatus", 0, TRUE)))
                  : again \in RunStatuses }

\* Every way one call of getAssistantResponse(threadId, userMessage) can
\* go; ready: openaiClient and assistantId are set; earlier: the thread
\* holds an assistant message of an earlier turn.  text tells which
\* message the returned text is of.
GetAssistantResponseRuns(ready, earlier) ==
  LET threw(error, trace) ==
        [threw |-> TRUE, text |-> "", final |-> "undefined", error |-> error,
         trace |-> trace]
      added == <<Event("messages.create", 0, TRUE)>>
      created == Append(added, Event("runs.create", 0, TRUE))
      polled == Append(created, Event("pollRunStatus", 0, TRUE))
  IN IF ~ready
     THEN { threw("OpenAI client or assistant ID not initialized", <<>>) }
     ELSE { threw(ErrorOf("messages.create"), <<Event("messages.create", 0, FALSE)>>),
            threw(ErrorOf("runs.create"), Append(added, Event("runs.create", 0, FALSE))),
            threw("Cannot read properties of undefined", polled) }
          \cup
          UNION {
            IF status = "requires_action"
            THEN UNION { ToolRuns(toolCalls, earlier, polled)
                         : toolCalls \in ToolCallLists }
            ELSE ReadAnswerRuns(status, earlier, polled)
            : status \in RunStatuses }

\* One call of getAssistantResponse.
CallGetAssistantResponse ==
  /\ probe = NoProbe
  /\ \E ready \in BOOLEAN, earlier \in BOOLEAN :
       \E r \in GetAssistantResponseRuns(ready, earlier) :
         probe' = [fn |-> "getAssistantResponse",
                   args |-> [ready |-> ready, earlier |-> earlier],
                   run |-> r]
  /\ UNCHANGED <<now, openaiKey, callPc, jobIdOf, pending, runPc, jobData,
                 scrapedData, runError, scrapingJobs, scrapedDocs, rawFiles,
                 writes, faults, resolved, request, voiceVars>>

NextAssistant == CallGetAssistantResponse

SpecAssistant == Init /\ [][NextAssistant]_vars

\* C34: when getAssistantResponse returns a text, the run it created
\* ended with status completed and the text is the assistant message of
\* that run; for every other end of the run it throws.
C34_TextOnlyOfCompletedRun ==
  (probe.fn = "getAssistantResponse" /\ ~probe.run.threw) =>
    /\ probe.run.final = "completed"
    /\ probe.run.text = "this run"


\* ================================================== the voice server
\* The conversation documents storeConversation and completeConversation
\* write are left out: of Firestore only the collections potential_tasks
\* and reminders are kept.

\* firebaseAdmin.firestore() is assigned to db
InitializeFirebase ==
  /\ ~services.db
  /\ services' = [services EXCEPT !.db = TRUE]
  /\ UNCHANGED <<scraperVars, poll, phoneToThreadMap, threads, ensured,
                 sessions, voicePc, answers, potentialTasks, reminders>>

\* initializeAssistant assigns openaiClient
InitializeAssistant ==
  /\ ~services.openaiClient
  /\ services' = [services EXCEPT !.openaiClient = TRUE]
  /\ UNCHANGED <<scraperVars, poll, phoneToThreadMap, threads, ensured,
                 sessions, voicePc, answers, potentialTasks, reminders>>

\* const taskPatterns = [...]: the task types, in the order they are tried
taskPatterns ==
  <<"reminder", "research", "content_creation", "image_creation",
    "social_post", "approval">>

\* What the caller says: heard is userSpeech && userSpeech.trim(), and
\* triggers are the task types one of whose trigger phrases the lowered
\* speech includes.
Utterances ==
  { [heard |-> FALSE, triggers |-> {}],
    [heard |-> TRUE, triggers |-> {}],
    [heard |-> TRUE, triggers |-> {"approval", "reminder"}] }

\* analyzeConversation: the first pattern with a trigger in the speech,
\* "" when none has one
DetectedType(u) ==
  LET hits == {i \in DOMAIN taskPatterns : taskPatterns[i] \in u.triggers}
  IN IF hits = {} THEN ""
     ELSE taskPatterns[CHOOSE i \in hits : \A j \in hits : i <= j]

\* Every way one call of analyzeConversation(sessionId, userSpeech) can
\* end, as the records storeAgentTask added to potential_tasks and to
\* reminders; utterance numbers the request the speech came with.  The
\* add of either collection can reject, which storeAgentTask catches.
AnalyzeConversationRuns(db, sessionId, u, utterance) ==
  LET type == DetectedType(u)
      task == [sourceId |-> sessionId, type |-> type, utterance |-> utterance]
  IN IF ~db \/ type = ""
     THEN { [tasks |-> <<>>, reminders |-> <<>>] }
     ELSE { [tasks |-> <<>>, reminders |-> <<>>],
            [tasks |-> <<task>>, reminders |-> <<>>] }
          \cup
          { [tasks |-> <<task>>, reminders |-> <<task>>] : x \in {type} \cap {"reminder"} }

\* Every way storeConversation(sessionId, data) can end for the data of a
\* user message: without db nothing happens; a rejected get, set or
\* update is caught; after the update analyzeConversation is awaited.
StoreConversationRuns(db, sessionId, u, utterance) ==
  IF ~db
  THEN { [tasks |-> <<>>, reminders |-> <<>>] }
  ELSE { [tasks |-> <<>>, reminders |-> <<>>] }
       \cup AnalyzeConversationRuns(db, sessionId, u, utterance)

\* the session /voice creates
NewSession(callSid) ==
  [exists |-> TRUE, callSid |-> callSid, threadId |-> 0, messages |-> <<"system">>]

\* session.threadId = threadId in the /voice handler: the handler has no
\* binding named session, so the assignment throws a ReferenceError into
\* the catch around it and the session in the map stays as it is
StoreThreadId(session, threadId) == session

\* /voice until its first await: the session is set under
\* session_<Date.now()> and the TwiML is sent; with a From number
\* ensureThreadForPhoneNumber is called, which throws without a client,
\* returns the mapped thread id, or starts threads.create.
Voice(v) ==
  /\ voicePc[v].pc = "idle"
  /\ \E callSid \in CallSids, from \in Phones \cup {""} :
       LET sessionId == now
           mapped == from # "" /\ phoneToThreadMap[from] # 0
           creating == from # "" /\ services.openaiClient /\ ~mapped
           set == [sessions EXCEPT ![sessionId] = NewSession(callSid)]
       IN /\ voicePc' = [voicePc EXCEPT ![v] =
               [pc |-> IF creating THEN "creating" ELSE "done",
                sessionId |-> sessionId, from |-> from, created |-> 0]]
          /\ IF mapped /\ services.openaiClient
             THEN /\ ensured' = Append(ensured, <<from, phoneToThreadMap[from]>>)
                  /\ sessions' = [set EXCEPT ![sessionId] =
                       StoreThreadId(set[sessionId], phoneToThreadMap[from])]
             ELSE /\ ensured' = ensured
                  /\ sessions' = set
  /\ UNCHANGED <<scraperVars, poll, phoneToThreadMap, threads, answers,
                 potentialTasks, reminders, services>>

\* threads.create settles for the /voice handler v: rejected, the error
\* is rethrown into the handler's catch; fulfilled, the new thread id is
\* set in phoneToThreadMap and returned, and the handler stores it.
VoiceThreadSettles(v) ==
  /\ voicePc[v].pc = "creating"
  /\ \/ /\ voicePc' = [voicePc EXCEPT ![v].pc = "done"]
        /\ UNCHANGED <<threads, phoneToThreadMap, ensured, sessions>>
     \/ LET threadId == Len(threads) + 1
            from == voicePc[v].from
            sessionId == voicePc[v].sessionId
        IN /\ threads' = Append(threads, from)
           /\ phoneToThreadMap' = [phoneToThreadMap EXCEPT ![from] = threadId]
           /\ ensured' = Append(ensured, <<from, threadId>>)
           /\ sessions' = [sessions EXCEPT ![sessionId] =
                StoreThreadId(sessions[sessionId], threadId)]
           /\ voicePc' = [voicePc EXCEPT ![v].pc = "done", ![v].created = threadId]
  /\ UNCHANGED <<scraperVars, poll, answers, potentialTasks, reminders, services>>

\* the answer to a request for a session the map does not hold
Expired(kind, sessionId) ==
  [kind |-> kind, session |-> sessionId, say |-> "your session has expired",
   hangup |-> TRUE, route |-> "none"]

\* The ways the reply to a heard utterance is made: through the
\* Assistants API when the session has a thread id, with the direct
\* completion as the fallback when that throws; otherwise the direct
\* completion.  A completion that throws ends in the outer catch.
Routes(session) ==
  IF session.threadId # 0
  THEN {"assistant", "fallback", "error"}
  ELSE {"direct", "error"}

\* /respond?session=sessionId with SpeechResult u
Respond(sessionId, u) ==
  /\ Len(answers) < MaxRequests
  /\ IF ~sessions[sessionId].exists
     THEN /\ answers' = Append(answers, Expired("respond", sessionId))
          /\ UNCHANGED <<sessions, potentialTasks, reminders>>
     ELSE IF ~u.heard
     THEN /\ answers' = Append(answers,
               [kind |-> "respond", session |-> sessionId,
                say |-> "I didn't hear you", hangup |-> FALSE, route |-> "none"])
          /\ UNCHANGED <<sessions, potentialTasks, reminders>>
     ELSE \E stored \in StoreConversationRuns(services.db, sessionId, u, Len(answers) + 1),
             again \in AnalyzeConversationRuns(services.db, sessionId, u, Len(answers) + 1),
             route \in Routes(sessions[sessionId]) :
            /\ potentialTasks' = potentialTasks \o stored.tasks \o again.tasks
            /\ reminders' = reminders \o stored.reminders \o again.reminders
            /\ sessions' = [sessions EXCEPT ![sessionId].messages =
                 IF route = "error" THEN Append(@, "user")
                 ELSE Append(Append(@, "user"), "assistant")]
            /\ answers' = Append(answers,
                 [kind |-> "respond", session |-> sessionId,
                  say |-> IF route = "error" THEN "I encountered an error"
                          ELSE "responseText",
                  hangup |-> FALSE, route |-> route])
  /\ UNCHANGED <<scraperVars, poll, phoneToThreadMap, threads, ensured,
                 voicePc, services>>

\* /reprompt?session=sessionId
Reprompt(sessionId) ==
  /\ Len(answers) < MaxRequests
  /\ answers' = Append(answers,
       IF ~sessions[sessionId].exists
       THEN Expired("reprompt", sessionId)
       ELSE [kind |-> "reprompt", session |-> sessionId,
             say |-> "Are you still there?", hangup |-> TRUE, route |-> "none"])
  /\ UNCHANGED <<scraperVars, poll, phoneToThreadMap, threads, ensured,
                 sessions, voicePc, potentialTasks, reminders, services>>

\* CallStatus values Twilio reports: two that end the call, one that does not
CallStatuses == {"completed", "no-answer", "in-progress"}

\* ['completed', 'failed', 'busy', 'no-answer', 'canceled']
CleanupStatuses == {"completed", "failed", "busy", "no-answer", "canceled"}

\* The loop over sessions.entries() of /status: the sessions are visited
\* in insertion order, which is the order of their ids, and the loop
\* breaks after deleting the first one with the call id.
DeleteFirst(map, callSid) ==
  LET matching == {id \in DOMAIN map : map[id].exists /\ map[id].callSid = callSid}
  IN IF matching = {} THEN map
     ELSE [map EXCEPT ![CHOOSE id \in matching : \A other \in matching : id <= other]
                        = NoSession]

\* /status with CallSid callSid and CallStatus callStatus
Status(callSid, callStatus) ==
  /\ Len(answers) < MaxRequests
  /\ sessions' = IF callStatus \in CleanupStatuses
                 THEN DeleteFirst(sessions, callSid)
                 ELSE sessions
  /\ answers' = Append(answers,
       [kind |-> "status", session |-> callSid, say |-> callStatus,
        hangup |-> FALSE, route |-> "none"])
  /\ UNCHANGED <<scraperVars, poll, phoneToThreadMap, threads, ensured,
                 voicePc, potentialTasks, reminders, services>>

NextVoice ==
  \/ Tick
  \/ InitializeFirebase
  \/ InitializeAssistant
  \/ \E v \in Voices : Voice(v)
  \/ \E v \in Voices : VoiceThreadSettles(v)
  \/ \E sessionId \in SessionIds, u \in Utterances : Respond(sessionId, u)
  \/ \E sessionId \in SessionIds : Reprompt(sessionId)
  \/ \E callSid \in CallSids, callStatus \in CallStatuses : Status(callSid, callStatus)

\* the scraper takes no step here: its variables stay as Init leaves
\* them, with the key it reads taken as set
InitServer == Init /\ openaiKey = TRUE

SpecVoice == InitServer /\ [][NextVoice]_vars

\* C33: at most one thread is ever created for a phone number, and every
\* call of ensureThreadForPhoneNumber for that number returns the same
\* thread id, overlapping calls included.
C33_OneThreadPerNumber ==
  /\ \A i, j \in DOMAIN threads : threads[i] = threads[j] => i = j
  /\ \A i, j \in DOMAIN ensured :
       ensured[i][1] = ensured[j][1] => ensured[i][2] = ensured[j][2]

\* C37: once a /voice handler that received a caller number has its
\* thread id from ensureThreadForPhoneNumber, the session it created
\* holds that thread id (which is what sends /respond through the
\* Assistants API); v is the only /voice request handled so far.
C37_SessionHoldsThread ==
  \A v \in Voices :
    (/\ voicePc[v].pc = "done"
     /\ voicePc[v].created # 0
     /\ sessions[voicePc[v].sessionId].exists
     /\ \A w \in Voices \ {v} : voicePc[w].pc = "idle")
    => sessions[voicePc[v].sessionId].threadId = voicePc[v].created

\* C38: the utterance of one /respond request leaves at most one record
\* in potential_tasks and at most one in reminders.
C38_OneTaskPerUtterance ==
  /\ \A i, j \in DOMAIN potentialTasks :
       potentialTasks[i].utterance = potentialTasks[j].utterance => i = j
  /\ \A i, j \in DOMAIN reminders :
       reminders[i].utterance = reminders[j].utterance => i = j

\* the step is the /status request number n
StatusStep(n) ==
  /\ Len(answers) = n - 1
  /\ Len(answers') = n
  /\ answers'[n].kind = "status"

\* C39: after /status handled a terminal CallStatus no session with the
\* CallSid remains and every other CallStatus leaves the sessions as they
\* are; a /respond or /reprompt for a session that is gone gets the
\* expired answer with a hangup and leaves the sessions as they are.
C39_StatusEndsSessions ==
  [][\A n \in 1..MaxRequests :
       /\ StatusStep(n) =>
            IF answers'[n].say \in CleanupStatuses
            THEN \A id \in SessionIds :
                   ~(sessions'[id].exists /\ sessions'[id].callSid = answers'[n].session)
            ELSE sessions' = sessions
       /\ (/\ Len(answers) = n - 1
           /\ Len(answers') = n
           /\ answers'[n].kind \in {"respond", "reprompt"}
           /\ ~sessions[answers'[n].session].exists)
          => /\ answers'[n] = Expired(answers'[n].kind, answers'[n].session)
             /\ sessions' = sessions]_vars


====
